---------------------------- MODULE Spec2Model ----------------------------
(***************************************************************************)
(* A model of the react-clean-architecture-template repository:           *)
(*   - HttpClient (infrastructure/api/HttpClient.ts): one request with    *)
(*     its timeout timers, its retry loop and its error mapping;          *)
(*   - CreateUserUseCase, GetUserUseCase, ListUsersUseCase and            *)
(*     UpdateUserUseCase (domain/use-cases) against the UserRepository    *)
(*     interface and their services;                                      *)
(*   - UserApiRepository (infrastructure/api) on top of HttpClient.       *)
(* A run of the model invokes one operation, op, and follows it through   *)
(* its awaits; what the environment does (the network, the server, the    *)
(* injected dependencies, the timers) is chosen nondeterministically.     *)
(***************************************************************************)
EXTENDS Integers, Sequences, FiniteSets, TLC

VARIABLES
    op,             \* the operation this run invokes
    \* ---- HttpClient ----
    options,        \* HttpClientOptions given to the constructor
    retryAttempts,  \* this.retryAttempts
    optSignal,      \* RequestOptions.signal was supplied by the caller
    signalAborted,  \* the caller's AbortSignal has aborted
    hpc,            \* position of request/executeWithRetry
    attemptsLeft,   \* executeWithRetry's parameter in the current attempt
    fetchCount,     \* number of fetch calls made by the request
    timers,         \* timers[i]: the timeout timer created by attempt i
    outcomes,       \* outcomes[i]: how the fetch of attempt i ended
    httpResult,     \* what the promise returned by request settled with
    \* ---- use cases ----
    input,          \* the input execute was called with
    upc,            \* position of execute
    calls,          \* the dependency calls made so far, in order
    returned,       \* returned[d]: how the call of dependency d settled
    saveArg,        \* the entity handed to userRepository.save / update
    result,         \* what the promise returned by execute settled with
    sideTask,       \* the promise of the un-awaited side effect
    queryArg,       \* the arguments handed to userRepository.findAll
    auditLogger,    \* UpdateUserUseCase was constructed with an auditLogger
    \* ---- User entity ----
    clock,          \* what new Date() reads, in milliseconds
    users,          \* users[i]: the props of the i-th User instance made
    arrays,         \* arrays[r]: the roles array that the reference r names
    lastCall,       \* the last call of a User method, and how it ended
    \* ---- Product entity ----
    products,       \* products[i]: the props of the i-th Product instance made
    productCall,    \* the last call of a Product method, and how it ended
    \* ---- ErrorBoundary ----
    boundaryProps,  \* whether props.fallback was supplied, and
                    \* import.meta.env.DEV
    state,          \* this.state
    caught,         \* the error React caught and has yet to hand to
                    \* componentDidCatch
    rendered,       \* what the last render() returned
    \* ---- two concurrent executions of CreateUserUseCase ----
    executions,     \* executions[p]: the input, the position and the result
                    \* of execution p
    stored,         \* the emails of the users the repository has saved
    \* ---- storage services ----
    storageEnv,     \* whether setItem of localStorage and of sessionStorage
                    \* works in this environment
    service,        \* the class of the service createDefault returned
    backends,       \* the items of localStorage, sessionStorage and the Map
    storageCall     \* the last call of a method of the service

httpVars == <<options, retryAttempts, optSignal, signalAborted, hpc,
              attemptsLeft, fetchCount, timers, outcomes, httpResult>>

ucVars == <<input, upc, calls, returned, saveArg, result, sideTask, queryArg,
            auditLogger>>

userVars == <<clock, users, arrays, lastCall>>

productVars == <<products, productCall>>

boundaryVars == <<boundaryProps, state, caught, rendered>>

raceVars == <<executions, stored>>

storageVars == <<storageEnv, service, backends, storageCall>>

\* the entities and the component, which no request and no use case of the
\* model touches
restVars == <<userVars, productVars, boundaryVars, raceVars, storageVars>>

vars == <<op, httpVars, ucVars, restVars>>

-----------------------------------------------------------------------------
(* Bounds of the model.                                                    *)

\* the largest retryAttempts value a caller passes in HttpClientOptions
MaxRetryOption == 2

-----------------------------------------------------------------------------
(* shared/constants/app.ts                                                 *)

\* API_CONFIG.retryAttempts
DefaultRetryAttempts == 3

HTTP_OK == 200
HTTP_CREATED == 201
HTTP_NO_CONTENT == 204
HTTP_BAD_REQUEST == 400
HTTP_UNAUTHORIZED == 401
HTTP_FORBIDDEN == 403
HTTP_NOT_FOUND == 404
HTTP_INTERNAL_SERVER_ERROR == 500

\* the statuses the modelled server answers with; 503 is one that the table
\* of HTTP_STATUS does not name
Statuses == {HTTP_OK, HTTP_CREATED, HTTP_NO_CONTENT, HTTP_BAD_REQUEST,
             HTTP_NOT_FOUND, HTTP_INTERNAL_SERVER_ERROR, 503}

-----------------------------------------------------------------------------
(* JavaScript values.                                                      *)

\* an optional number: undefined, or a number
Undefined == [defined |-> FALSE, value |-> 0]
Num(n) == [defined |-> TRUE, value |-> n]

\* a || b on an optional number a: 0 and undefined are falsy
OrDefault(a, b) == IF a.defined /\ a.value # 0 THEN a.value ELSE b

\* an ApiResponse { data, success, message? } or an ApiErrorResponse
\* { error: { code, message, details? }, success: false }, or a body that has
\* the fields of both; "" for an absent field
NoPayload == [success |-> FALSE, data |-> "", message |-> "",
              hasError |-> FALSE, code |-> "", errorMessage |-> "",
              details |-> ""]
ApiErrorResponse(code, message, details) ==
    [success |-> FALSE, data |-> "", message |-> "", hasError |-> TRUE,
     code |-> code, errorMessage |-> message, details |-> details]

\* a thrown value: an Error object (TypeError, DOMException) or a plain object
TypeErrorOf(msg) == [kind |-> "TypeError", name |-> "TypeError",
                     message |-> msg, payload |-> NoPayload]
AbortError == [kind |-> "DOMException", name |-> "AbortError",
               message |-> "The operation was aborted.", payload |-> NoPayload]
PlainObject(p) == [kind |-> "Object", name |-> "", message |-> "", payload |-> p]

InstanceOfError(e) == e.kind \in {"TypeError", "DOMException", "Error"}
InstanceOfTypeError(e) == e.kind = "TypeError"

\* the messages of the TypeError a failed fetch raises, by engine:
\* Chromium, Node (undici), Firefox contain 'fetch'; WebKit's does not
FetchFailureMessages == {"Failed to fetch", "fetch failed", "Load failed"}
\* String.prototype.includes('fetch') on those messages
IncludesFetch(msg) == msg \in {"Failed to fetch", "fetch failed"}

\* the response texts the modelled server sends
ErrorEnvelopeText == "{error:{code:NOT_FOUND,message:no such user},success:false}"
FailedResponseText ==
    "{data:null,success:false,error:{code:NOT_FOUND,message:no such user}}"
BareFailedResponseText == "{data:null,success:false}"
ApiResponseText == "{data:u1,success:true,message:ok}"
ApiListText == "{data:[u1],success:true}"
ApiPageText == "{data:{data:[u1],pagination:p},success:true}"
PlainJsonText == "{id:u1}"
InvalidJsonText == "<html>"
EmptyText == ""
Texts == {ErrorEnvelopeText, FailedResponseText, BareFailedResponseText,
          ApiResponseText, ApiListText, ApiPageText, PlainJsonText,
          InvalidJsonText, EmptyText}

\* JSON.parse on those texts (JsonNull where it throws)
JsonNull == [null |-> TRUE, hasError |-> FALSE, hasData |-> FALSE,
             hasSuccess |-> FALSE, success |-> FALSE, code |-> "",
             errorMessage |-> "", message |-> "", data |-> "",
             raw |-> "null"]
JsonObject(text, hasError, hasData, hasSuccess, success, data, message) ==
    [null |-> FALSE, hasError |-> hasError, hasData |-> hasData,
     hasSuccess |-> hasSuccess, success |-> success,
     code |-> IF hasError THEN "NOT_FOUND" ELSE "",
     errorMessage |-> IF hasError THEN "no such user" ELSE "",
     message |-> message, data |-> data, raw |-> text]
JsonParse(text) ==
    CASE text = ErrorEnvelopeText ->
           JsonObject(text, TRUE, FALSE, TRUE, FALSE, "", "")
      [] text = FailedResponseText ->
           JsonObject(text, TRUE, TRUE, TRUE, FALSE, "null", "")
      [] text = BareFailedResponseText ->
           JsonObject(text, FALSE, TRUE, TRUE, FALSE, "null", "")
      [] text = ApiResponseText ->
           JsonObject(text, FALSE, TRUE, TRUE, TRUE, "u1", "ok")
      [] text = ApiListText ->
           JsonObject(text, FALSE, TRUE, TRUE, TRUE, "[u1]", "")
      [] text = ApiPageText ->
           JsonObject(text, FALSE, TRUE, TRUE, TRUE, "{data:[u1],pagination:p}", "")
      [] text = PlainJsonText ->
           JsonObject(text, FALSE, FALSE, FALSE, FALSE, "", "")
      [] OTHER -> JsonNull
JsonParseThrows(text) == text = InvalidJsonText

-----------------------------------------------------------------------------
(* HttpClient: the pure helpers.                                           *)

\* constructor: this.retryAttempts = options.retryAttempts || API_CONFIG.retryAttempts
ConstructorRetryAttempts(opts) ==
    OrDefault(opts.retryAttempts, DefaultRetryAttempts)

getErrorMessage(status) ==
    CASE status = HTTP_BAD_REQUEST -> "Ungueltige Anfrage"
      [] status = HTTP_UNAUTHORIZED -> "Nicht autorisiert"
      [] status = HTTP_FORBIDDEN -> "Zugriff verweigert"
      [] status = HTTP_NOT_FOUND -> "Ressource nicht gefunden"
      [] status = HTTP_INTERNAL_SERVER_ERROR -> "Interner Serverfehler"
      [] OTHER -> "HTTP-Fehler: " \o ToString(status)

getSuccessMessage(status) ==
    CASE status = HTTP_CREATED -> "Erfolgreich erstellt"
      [] status = HTTP_NO_CONTENT -> "Erfolgreich geloescht"
      [] OTHER -> ""

isApiResponse(data) == ~data.null /\ data.hasData /\ data.hasSuccess

isApiErrorResponse(data) ==
    ~data.null /\ data.hasError /\ data.hasSuccess /\ data.success = FALSE

\* the template literal `HTTP_${status}`
HttpCode(status) == "HTTP_" \o ToString(status)

createHttpError(status, data) ==
    IF isApiErrorResponse(data)
    THEN [success |-> FALSE, data |-> data.data, message |-> data.message,
          hasError |-> TRUE, code |-> data.code,
          errorMessage |-> data.errorMessage, details |-> ""]
    ELSE ApiErrorResponse(HttpCode(status), getErrorMessage(status), data.raw)

createApiError(error) ==
    IF InstanceOfTypeError(error) /\ IncludesFetch(error.message)
    THEN ApiErrorResponse("NETWORK_ERROR", "Netzwerkfehler", "")
    ELSE IF InstanceOfError(error) /\ error.name = "AbortError"
    THEN ApiErrorResponse("TIMEOUT_ERROR", "Anfrage-Timeout", "")
    ELSE ApiErrorResponse("UNKNOWN_ERROR",
                          IF InstanceOfError(error) THEN error.message
                          ELSE "Unbekannter Fehler", "")

shouldRetry(error) ==
    \/ InstanceOfTypeError(error) /\ IncludesFetch(error.message)
    \/ InstanceOfError(error) /\ error.name = "AbortError"

\* a retry loop that is off by one: the last attempt is retried once more
CanRetryOffByOne(left, error) == left >= 0 /\ shouldRetry(error)

\* the condition of the retry in executeWithRetry's catch
CanRetry(left, error) == left > 0 /\ shouldRetry(error)

\* response.ok
ResponseOk(status) == status >= 200 /\ status <= 299

\* handleResponse's responseData: text ? JSON.parse(text) : null, and null
\* when response.text() or JSON.parse throws
ResponseData(text, readable) ==
    IF ~readable \/ JsonParseThrows(text) \/ text = EmptyText
    THEN JsonNull
    ELSE JsonParse(text)

\* handleResponse: what it throws, or what it returns
handleResponse(status, text, readable) ==
    LET responseData == ResponseData(text, readable)
    IN  IF ~ResponseOk(status)
        THEN [threw |-> TRUE,
              thrown |-> PlainObject(createHttpError(status, responseData)),
              value |-> NoPayload]
        ELSE IF isApiResponse(responseData)
        THEN [threw |-> FALSE, thrown |-> PlainObject(NoPayload),
              value |-> [success |-> responseData.success,
                         data |-> responseData.data,
                         message |-> responseData.message,
                         hasError |-> responseData.hasError,
                         code |-> responseData.code,
                         errorMessage |-> responseData.errorMessage,
                         details |-> ""]]
        ELSE [threw |-> FALSE, thrown |-> PlainObject(NoPayload),
              value |-> [success |-> TRUE, data |-> responseData.raw,
                         message |-> getSuccessMessage(status),
                         hasError |-> FALSE, code |-> "",
                         errorMessage |-> "", details |-> ""]]

-----------------------------------------------------------------------------
(* HttpClient: one request.                                                *)

NoOutcome == [event |-> "none", status |-> 0, text |-> "", readable |-> TRUE,
              message |-> "", cause |-> ""]
ResponseOutcome(status, text, readable) ==
    [event |-> "response", status |-> status, text |-> text,
     readable |-> readable, message |-> "", cause |-> "server"]
\* cause: what made fetch throw ("network", or who aborted its signal)
ThrownOutcome(error, cause) ==
    [event |-> error.name, status |-> 0, text |-> "", readable |-> TRUE,
     message |-> error.message, cause |-> cause]

Pending == [settled |-> "pending", value |-> NoPayload]
Resolved(v) == [settled |-> "resolved", value |-> v]
Rejected(v) == [settled |-> "rejected", value |-> v]

\* new HttpClient(options)
HttpInit ==
    /\ options \in {[retryAttempts |-> r] :
                      r \in {Undefined} \cup {Num(n) : n \in 0..MaxRetryOption}}
    /\ retryAttempts = ConstructorRetryAttempts(options)
    /\ optSignal = FALSE
    /\ signalAborted = FALSE
    /\ hpc = "idle"
    /\ attemptsLeft = 0
    /\ fetchCount = 0
    /\ timers = <<>>
    /\ outcomes = <<>>
    /\ httpResult = Pending

\* executeWithRetry up to its await of fetch: a new AbortController, a new
\* timeout timer, and the fetch call
StartAttempt(left) ==
    /\ attemptsLeft' = left
    /\ fetchCount' = fetchCount + 1
    /\ timers' = Append(timers, "pending")
    /\ hpc' = "fetching"

\* signal: init.signal || controller.signal -- whether the signal handed to
\* the fetch of the current attempt has aborted
FetchSignalAborted ==
    IF optSignal THEN signalAborted ELSE timers[fetchCount] = "fired"

\* who aborted the signal handed to fetch: the caller's signal replaces the
\* one of the timeout's AbortController
AbortCause == IF optSignal THEN "caller" ELSE "timeout"

\* the catch block of executeWithRetry
Catch(error) ==
    IF CanRetry(attemptsLeft, error)
    THEN /\ hpc' = "delaying"
         /\ UNCHANGED httpResult
    ELSE /\ hpc' = "rejected"
         /\ httpResult' = Rejected(createApiError(error))

\* request(method, url, data, options): builds the RequestInit and enters
\* executeWithRetry(fullUrl, requestInit, this.retryAttempts)
HttpStart(signal) ==
    /\ hpc = "idle"
    /\ optSignal' = signal
    /\ StartAttempt(retryAttempts)
    /\ UNCHANGED <<options, retryAttempts, signalAborted, outcomes, httpResult>>

\* fetch resolves with a response: clearTimeout, then handleResponse
HttpFetchResolves(status, text, readable) ==
    /\ hpc = "fetching"
    /\ ~FetchSignalAborted
    /\ timers' = [timers EXCEPT ![fetchCount] = "cleared"]
    /\ outcomes' = Append(outcomes, ResponseOutcome(status, text, readable))
    /\ LET r == handleResponse(status, text, readable)
       IN  IF r.threw
           THEN Catch(r.thrown)
           ELSE /\ hpc' = "resolved"
                /\ httpResult' = Resolved(r.value)
    /\ UNCHANGED <<options, retryAttempts, optSignal, signalAborted,
                   attemptsLeft, fetchCount>>

\* fetch rejects with a TypeError (no connection, DNS, CORS): the timer of
\* the attempt is left as it is
HttpFetchFails(msg) ==
    /\ hpc = "fetching"
    /\ ~FetchSignalAborted
    /\ outcomes' = Append(outcomes, ThrownOutcome(TypeErrorOf(msg), "network"))
    /\ Catch(TypeErrorOf(msg))
    /\ UNCHANGED <<options, retryAttempts, optSignal, signalAborted,
                   attemptsLeft, fetchCount, timers>>

\* fetch rejects with an AbortError because its signal has aborted
HttpFetchAborted ==
    /\ hpc = "fetching"
    /\ FetchSignalAborted
    /\ outcomes' = Append(outcomes, ThrownOutcome(AbortError, AbortCause))
    /\ Catch(AbortError)
    /\ UNCHANGED <<options, retryAttempts, optSignal, signalAborted,
                   attemptsLeft, fetchCount, timers>>

\* the timeout of attempt i elapses: () => controller.abort()
HttpTimeoutFires(i) ==
    /\ i \in 1..Len(timers)
    /\ timers[i] = "pending"
    /\ timers' = [timers EXCEPT ![i] = "fired"]
    /\ UNCHANGED <<options, retryAttempts, optSignal, signalAborted, hpc,
                   attemptsLeft, fetchCount, outcomes, httpResult>>

\* the caller aborts the signal it passed in RequestOptions
HttpCallerAborts ==
    /\ optSignal
    /\ ~signalAborted
    /\ hpc \in {"fetching", "delaying"}
    /\ signalAborted' = TRUE
    /\ UNCHANGED <<options, retryAttempts, optSignal, hpc, attemptsLeft,
                   fetchCount, timers, outcomes, httpResult>>

\* await this.delay(this.retryDelay) is over:
\* executeWithRetry(url, init, attemptsLeft - 1)
HttpDelayElapses ==
    /\ hpc = "delaying"
    /\ StartAttempt(attemptsLeft - 1)
    /\ UNCHANGED <<options, retryAttempts, optSignal, signalAborted, outcomes,
                   httpResult>>

-----------------------------------------------------------------------------
(* Strings, as sequences of characters, and the tests made on them.        *)

Str1(a) == <<a>>
Repeat(c, n) == [i \in 1..n |-> c]

IsWhitespace(c) == c \in {" ", "\t"}

SetMin(S) == CHOOSE x \in S : \A y \in S : x <= y
SetMax(S) == CHOOSE x \in S : \A y \in S : x >= y

\* String.prototype.trim
Trim(str) ==
    LET kept == {i \in 1..Len(str) : ~IsWhitespace(str[i])}
    IN  IF kept = {} THEN <<>> ELSE SubSeq(str, SetMin(kept), SetMax(kept))

\* !s || s.trim().length === 0
IsBlank(str) == str = <<>> \/ Len(Trim(str)) = 0

\* /^[^\s@]+@[^\s@]+\.[^\s@]+$/.test(s)
EmailRegexTest(str) ==
    \E at \in 1..Len(str) :
        /\ str[at] = "@"
        /\ at >= 2
        /\ \A i \in 1..Len(str) :
               i # at => ~IsWhitespace(str[i]) /\ str[i] # "@"
        /\ \E dot \in (at + 2)..(Len(str) - 1) : str[dot] = "."

Letters ==
    {"a", "b", "c", "d", "e", "f", "g", "h", "i", "j", "k", "l", "m", "n",
     "o", "p", "q", "r", "s", "t", "u", "v", "w", "x", "y", "z",
     "A", "B", "C", "D", "E", "F", "G", "H", "I", "J", "K", "L", "M", "N",
     "O", "P", "Q", "R", "S", "T", "U", "V", "W", "X", "Y", "Z"}

\* /^[a-zA-Z<accented letters>\s-']+$/.test(s), on the characters modelled
NameRegexTest(str) ==
    /\ Len(str) >= 1
    /\ \A i \in 1..Len(str) :
           str[i] \in Letters \/ IsWhitespace(str[i]) \/ str[i] \in {"-", "'"}

-----------------------------------------------------------------------------
(* shared/types/common.ts: errors and Result.                              *)

\* an Error object; tag tells two errors of the same class apart
NoError == [name |-> "", code |-> "", field |-> "", tag |-> ""]
ValidationError(message, field) ==
    [name |-> "ValidationError", code |-> "VALIDATION_ERROR", field |-> field,
     tag |-> message]
DomainError(message, code) ==
    [name |-> "DomainError", code |-> code, field |-> "", tag |-> message]
PlainError(message) ==
    [name |-> "Error", code |-> "", field |-> "", tag |-> message]
\* a thrown value that is no Error (a string, an object)
NonError(what) ==
    [name |-> "NonError", code |-> "", field |-> "", tag |-> what]
IsErrorInstance(e) == e.name \in {"Error", "DomainError", "ValidationError",
                                  "NotFoundError", "TypeError"}

\* an optional string: undefined, or a string
NoString == [defined |-> FALSE, value |-> ""]
String(s) == [defined |-> TRUE, value |-> s]

\* an optional name: undefined, or a sequence of characters
NoName == [defined |-> FALSE, value |-> <<>>]
Name(s) == [defined |-> TRUE, value |-> s]

\* a thrown TypeError (a property of undefined or null was read, a method
\* that is not there was called)
JsTypeError(message) ==
    [name |-> "TypeError", code |-> "", field |-> "", tag |-> message]
NotFoundError(resource, id) ==
    [name |-> "NotFoundError", code |-> "NOT_FOUND", field |-> "",
     tag |-> resource]

NoUser == [id |-> "", email |-> <<>>, firstName |-> <<>>, lastName |-> <<>>,
           avatar |-> NoString, isActive |-> FALSE, roles |-> <<>>]

\* Result<T>: { success: true, data } | { success: false, error }; data is a
\* boolean (flag), a user, or nothing
Success(flag, user) ==
    [success |-> TRUE, flag |-> flag, user |-> user, error |-> NoError]
Failure(error) ==
    [success |-> FALSE, flag |-> FALSE, user |-> NoUser, error |-> error]
SuccessVoid == Success(FALSE, NoUser)

\* how a call of a dependency settles
NotCalled == [how |-> "none", value |-> SuccessVoid, error |-> NoError]
Returns(r) == [how |-> "return", value |-> r, error |-> NoError]
Throws(e) == [how |-> "throw", value |-> SuccessVoid, error |-> e]

-----------------------------------------------------------------------------
(* domain/entities/User.ts, as far as the use cases need it.              *)

NameMinLength == 2
NameMaxLength == 50

\* validateEmail: the error it throws, or NoError
validateEmail(email) ==
    IF IsBlank(email)
    THEN ValidationError("E-Mail ist erforderlich", "email")
    ELSE IF ~EmailRegexTest(email)
    THEN ValidationError("Ungueltige E-Mail-Adresse", "email")
    ELSE NoError

\* validateName: the error it throws, or NoError
validateName(name, fieldName) ==
    IF IsBlank(name)
    THEN ValidationError("ist erforderlich", fieldName)
    ELSE IF Len(name) < NameMinLength
    THEN ValidationError("muss mindestens 2 Zeichen haben", fieldName)
    ELSE IF Len(name) > NameMaxLength
    THEN ValidationError("darf maximal 50 Zeichen haben", fieldName)
    ELSE IF ~NameRegexTest(name)
    THEN ValidationError("darf nur Buchstaben enthalten", fieldName)
    ELSE NoError

\* a constructor that validates the email alone
UserConstructorErrorEmailOnly(props) == validateEmail(props.email)

\* the constructor: the first error among validateEmail(email),
\* validateName(firstName), validateName(lastName), or NoError
UserConstructorError(props) ==
    IF validateEmail(props.email) # NoError
    THEN validateEmail(props.email)
    ELSE IF validateName(props.firstName, "vorname") # NoError
    THEN validateName(props.firstName, "vorname")
    ELSE validateName(props.lastName, "nachname")

\* User.create(props): the new entity, with a fresh id
UserCreate(props) ==
    [id |-> "uuid", email |-> props.email, firstName |-> props.firstName,
     lastName |-> props.lastName, avatar |-> props.avatar,
     isActive |-> props.isActive, roles |-> props.roles]

-----------------------------------------------------------------------------
(* domain/entities/User.ts: the instances and their methods.  An instance  *)
(* is its props object; props.roles is a reference to an array, which      *)
(* instances may share.                                                     *)

\* the largest number of User instances made in a run
MaxUsers == 2
\* the largest reading of the clock
MaxClock == 1
\* the largest number of User instances made in a run of role calls
MaxRoleUsers == 4

\* the runs that call the methods of User, and the instances each may make
UserOps == {"user", "roles"}
UserLimit == IF op = "roles" THEN MaxRoleUsers ELSE MaxUsers

NoProps == [id |-> "", email |-> <<>>, firstName |-> <<>>, lastName |-> <<>>,
            avatar |-> NoString, isActive |-> FALSE, roles |-> 0,
            lastLoginAt |-> Undefined, createdAt |-> 0, updatedAt |-> 0]

\* a call of a User method: the receiver (0 for a static method) and its
\* props and roles before the call, the properties the call is to change,
\* the props it hands to the constructor, and how it ended
NoCall == [method |-> "none", receiver |-> 0, before |-> NoProps,
           beforeRoles |-> <<>>, targets |-> {}, candidate |-> NoProps,
           threw |-> FALSE, error |-> NoError, result |-> 0]

UserIdle ==
    /\ clock = 0
    /\ users = <<>>
    /\ arrays = <<>>
    /\ lastCall = NoCall

NoProductProps ==
    [id |-> "", name |-> <<>>, description |-> 0, price |-> 0,
     currency |-> "", categoryId |-> "", images |-> <<>>, inStock |-> 0,
     isActive |-> FALSE, tags |-> <<>>, createdAt |-> 0, updatedAt |-> 0]

\* a call of a Product method: the receiver (0 for a static method), the
\* props it hands to the constructor, and how it ended
NoProductCall ==
    [method |-> "none", receiver |-> 0, candidate |-> NoProductProps,
     threw |-> FALSE, error |-> NoError, result |-> 0]

ProductIdle ==
    /\ products = <<>>
    /\ productCall = NoProductCall

\* the state the constructor of ErrorBoundary sets
NoState == [hasError |-> FALSE, error |-> "null", errorInfo |-> "null"]
NoCaught == [error |-> "null", errorInfo |-> "null", pending |-> FALSE]
NoOutput == [output |-> "nothing", error |-> "null", errorType |-> "",
             errorMessage |-> ""]

\* no ErrorBoundary constructed yet
BoundaryIdle ==
    /\ boundaryProps = [fallback |-> FALSE, dev |-> FALSE]
    /\ state = NoState
    /\ caught = NoCaught
    /\ rendered = NoOutput

\* the executions of the concurrent run
Executions == {1, 2}

NoInput == [email |-> <<>>, firstName |-> <<>>, lastName |-> <<>>,
            password |-> <<>>]

NoExecution ==
    [pc |-> "idle", input |-> NoInput, calls |-> <<>>, result |-> SuccessVoid]

\* no concurrent execution started, nothing saved
RaceIdle ==
    /\ executions = [p \in Executions |-> NoExecution]
    /\ stored = <<>>

\* the keys of the callers of the storage service
StorageKeys == {"theme", "language"}

\* getFullKey(key), with the default prefix
getFullKey(key) == "app_" \o key

\* a backend without items: getItem answers null, Map.get undefined
NoItem == "null"
NoItems == [k \in {getFullKey(key) : key \in StorageKeys} |-> NoItem]
NoService == [class |-> "none", madeBy |-> "none"]
NoStorageCall == [method |-> "none", key |-> "", value |-> "", result |-> ""]
NoBackends == [local |-> NoItems, session |-> NoItems, memory |-> NoItems]

\* no storage service made yet, nothing stored anywhere
StorageIdle ==
    /\ storageEnv = [local |-> TRUE, session |-> TRUE]
    /\ service = NoService
    /\ backends = NoBackends
    /\ storageCall = NoStorageCall

RestIdle ==
    UserIdle /\ ProductIdle /\ BoundaryIdle /\ RaceIdle /\ StorageIdle

-----------------------------------------------------------------------------
(* domain/use-cases: the state shared by the use cases.                    *)

Dependencies == {"emailExists", "hash", "save", "sendWelcomeEmail",
                 "findById", "update", "logUserUpdate", "findAll"}

\* pagination and filters, as ListUsersUseCase receives and passes them;
\* "" and <<>> stand for an absent string
NoPagination == [given |-> FALSE, page |-> Undefined, pageSize |-> Undefined,
                 sortBy |-> "", sortOrder |-> ""]
NoFilters == [given |-> FALSE, search |-> <<>>, status |-> "",
              dateFrom |-> Undefined, dateTo |-> Undefined]
NoQuery == [pagination |-> NoPagination, filters |-> NoFilters]

\* the promise of execute before it settles
Unsettled == [settled |-> "pending", value |-> Failure(NoError)]

UseCaseIdle ==
    /\ input = NoInput
    /\ upc = "idle"
    /\ calls = <<>>
    /\ returned = [d \in Dependencies |-> NotCalled]
    /\ saveArg = NoUser
    /\ result = Unsettled
    /\ sideTask = "none"
    /\ queryArg = NoQuery
    /\ auditLogger = FALSE

\* the promise of execute resolves with r
Return(r) ==
    /\ upc' = "done"
    /\ result' = [settled |-> "resolved", value |-> r]

\* execute calls dependency d and awaits it
Call(d) ==
    /\ calls' = Append(calls, d)
    /\ upc' = d
    /\ UNCHANGED result

\* the errors a repository or a service fails with
DependencyErrors == {PlainError("Database connection failed"),
                     NonError("a thrown string")}

\* how a call of a dependency that returns Result<boolean> may settle
FlagOutcomes ==
    {Returns(Success(f, NoUser)) : f \in BOOLEAN}
        \cup {Returns(Failure(PlainError("Database connection failed")))}
        \cup {Throws(e) : e \in DependencyErrors}

\* the entity a repository answers with for the entity u it was handed:
\* the stored user, with the id the server gave it
Stored(u) == [u EXCEPT !.id = "u1"]

\* how a call of a dependency that returns Result<User> may settle
UserOutcomes(u) ==
    {Returns(Success(FALSE, Stored(u))),
     Returns(Failure(PlainError("Database save failed")))}
        \cup {Throws(e) : e \in DependencyErrors}

\* the string passwordHasher.hash returns, in the shape of the values that
\* the dependencies return
Hashed(h) ==
    [success |-> TRUE, flag |-> FALSE, user |-> NoUser, error |-> NoError,
     text |-> h]
Hashes == {"hash-1", "hash-2"}

\* how a call of passwordHasher.hash may settle
HashOutcomes ==
    {Returns(Hashed(h)) : h \in Hashes} \cup {Throws(e) : e \in DependencyErrors}

\* how a call of a dependency that returns a plain value may settle
ValueOutcomes == {Returns(SuccessVoid)} \cup {Throws(e) : e \in DependencyErrors}

-----------------------------------------------------------------------------
(* CreateUserUseCase (domain/use-cases/CreateUser.ts).                     *)

PasswordMinLength == 8

\* validateInput(input): Result<void>
CreateUserValidateInput(in) ==
    IF IsBlank(in.email)
    THEN Failure(ValidationError("E-Mail ist erforderlich", "email"))
    ELSE IF ~EmailRegexTest(in.email)
    THEN Failure(ValidationError("Ungueltige E-Mail-Adresse", "email"))
    ELSE IF IsBlank(in.firstName)
    THEN Failure(ValidationError("Vorname ist erforderlich", "firstName"))
    ELSE IF IsBlank(in.lastName)
    THEN Failure(ValidationError("Nachname ist erforderlich", "lastName"))
    ELSE IF in.password = <<>>
    THEN Failure(ValidationError("Passwort ist erforderlich", "password"))
    ELSE IF Len(in.password) < PasswordMinLength
    THEN Failure(ValidationError("Passwort muss mindestens 8 Zeichen haben",
                                 "password"))
    ELSE SuccessVoid

\* a catch block that replaces every error by a generic one
CreateUserCatchGeneric(error) ==
    Return(Failure(PlainError("Unbekannter Fehler beim Erstellen des Benutzers")))

\* the catch block of execute
CreateUserCatch(error) ==
    Return(Failure(IF IsErrorInstance(error) THEN error
                   ELSE PlainError("Unbekannter Fehler beim Erstellen des Benutzers")))

\* props for User.create that carry the password along
CreateUserPropsWithPassword(in) ==
    [email |-> in.email, firstName |-> in.firstName, lastName |-> in.lastName,
     avatar |-> String(in.password), isActive |-> TRUE, roles |-> <<"user">>]

\* the props execute hands to User.create
CreateUserProps(in) ==
    [email |-> in.email, firstName |-> in.firstName, lastName |-> in.lastName,
     avatar |-> NoString, isActive |-> TRUE, roles |-> <<"user">>]

\* a sendWelcomeEmailAsync without its try/catch
sendWelcomeEmailAsyncUncaught(how) ==
    IF how = "throw" THEN "rejected" ELSE "fulfilled"

\* sendWelcomeEmailAsync: the state of its promise once sendWelcomeEmail
\* has settled in the way `how`; a throw is caught and logged
sendWelcomeEmailAsync(how) ==
    IF how = "throw" THEN "fulfilled, error logged" ELSE "fulfilled"

\* execute(input), up to its first await
CreateUserExecute(in) ==
    /\ op = "createUser"
    /\ upc = "idle"
    /\ input' = in
    /\ IF ~CreateUserValidateInput(in).success
       THEN Return(CreateUserValidateInput(in)) /\ UNCHANGED calls
       ELSE Call("emailExists")
    /\ UNCHANGED <<returned, saveArg, sideTask>>

\* an execute that goes on whatever emailExists reports
CreateUserEmailExistsIgnored(o) ==
    /\ op = "createUser"
    /\ upc = "emailExists"
    /\ returned' = [returned EXCEPT !["emailExists"] = o]
    /\ IF o.how = "throw"
       THEN CreateUserCatch(o.error) /\ UNCHANGED calls
       ELSE IF ~o.value.success
       THEN Return(Failure(o.value.error)) /\ UNCHANGED calls
       ELSE Call("hash")
    /\ UNCHANGED <<input, saveArg, sideTask>>

\* userRepository.emailExists settles
CreateUserEmailExists(o) ==
    /\ op = "createUser"
    /\ upc = "emailExists"
    /\ returned' = [returned EXCEPT !["emailExists"] = o]
    /\ IF o.how = "throw"
       THEN CreateUserCatch(o.error) /\ UNCHANGED calls
       ELSE IF ~o.value.success
       THEN Return(Failure(o.value.error)) /\ UNCHANGED calls
       ELSE IF o.value.flag
       THEN Return(Failure(DomainError("E-Mail-Adresse ist bereits registriert",
                                       "EMAIL_ALREADY_EXISTS")))
            /\ UNCHANGED calls
       ELSE Call("hash")
    /\ UNCHANGED <<input, saveArg, sideTask>>

\* passwordHasher.hash settles; then User.create and the call of save
CreateUserHash(o) ==
    /\ op = "createUser"
    /\ upc = "hash"
    /\ returned' = [returned EXCEPT !["hash"] = o]
    /\ IF o.how = "throw"
       THEN CreateUserCatch(o.error) /\ UNCHANGED <<calls, saveArg>>
       ELSE IF UserConstructorError(CreateUserProps(input)) # NoError
       THEN CreateUserCatch(UserConstructorError(CreateUserProps(input)))
            /\ UNCHANGED <<calls, saveArg>>
       ELSE /\ saveArg' = UserCreate(CreateUserProps(input))
            /\ Call("save")
    /\ UNCHANGED <<input, sideTask>>

\* userRepository.save settles; on success sendWelcomeEmailAsync is called,
\* not awaited, and execute returns. emailThrows: sendWelcomeEmail throws
\* at once instead of returning a promise
CreateUserSave(o, emailThrows) ==
    /\ op = "createUser"
    /\ upc = "save"
    /\ returned' = [returned EXCEPT
                       !["save"] = o,
                       !["sendWelcomeEmail"] =
                           IF o.how = "return" /\ o.value.success /\ emailThrows
                           THEN Throws(PlainError("Email service unavailable"))
                           ELSE @]
    /\ IF o.how = "throw"
       THEN CreateUserCatch(o.error) /\ UNCHANGED <<calls, sideTask>>
       ELSE IF ~o.value.success
       THEN Return(Failure(o.value.error)) /\ UNCHANGED <<calls, sideTask>>
       ELSE /\ calls' = Append(calls, "sendWelcomeEmail")
            /\ sideTask' = IF emailThrows THEN sendWelcomeEmailAsync("throw")
                           ELSE "pending"
            /\ Return(Success(FALSE, o.value.user))
    /\ UNCHANGED <<input, saveArg>>

\* the promise of emailService.sendWelcomeEmail settles, after execute
\* has returned
CreateUserEmailSettles(how) ==
    /\ op = "createUser"
    /\ sideTask = "pending"
    /\ "sendWelcomeEmail" \in {calls[i] : i \in 1..Len(calls)}
    /\ returned' = [returned EXCEPT !["sendWelcomeEmail"] =
                       IF how = "throw"
                       THEN Throws(PlainError("Email service unavailable"))
                       ELSE Returns(SuccessVoid)]
    /\ sideTask' = sendWelcomeEmailAsync(how)
    /\ UNCHANGED <<input, upc, calls, saveArg, result>>

\* the inputs execute is called with
Emails == {<<>>, <<" ">>, <<"a", "b">>, <<"a", "@", "b">>,
           <<"a", "@", "b", ".", "c">>}
FirstNames == {<<>>, <<" ", " ">>, <<"A">>, <<"J", "o">>, <<"J", "3">>,
               Repeat("a", NameMaxLength + 1)}
LastNames == {<<>>, <<"D", "o", "e">>, <<"O", "'", "N">>}
Passwords == {<<>>, Repeat("x", PasswordMinLength - 1),
              Repeat("x", PasswordMinLength), Repeat("y", PasswordMinLength)}
CreateUserInputs ==
    [email : Emails, firstName : FirstNames, lastName : LastNames,
     password : Passwords]

CreateUser == upc = "idle" /\ \E in \in CreateUserInputs : CreateUserExecute(in)
EmailExistsSettles == \E o \in FlagOutcomes : CreateUserEmailExists(o)
HashSettles == \E o \in HashOutcomes : CreateUserHash(o)
SaveSettles ==
    \E o \in UserOutcomes(saveArg), emailThrows \in BOOLEAN :
        CreateUserSave(o, emailThrows)
WelcomeEmailSettles ==
    \E how \in {"resolve", "throw"} : CreateUserEmailSettles(how)

CreateUserNext ==
    \/ CreateUser /\ UNCHANGED <<op, httpVars, queryArg, auditLogger, restVars>>
    \/ EmailExistsSettles /\ UNCHANGED <<op, httpVars, queryArg, auditLogger, restVars>>
    \/ HashSettles /\ UNCHANGED <<op, httpVars, queryArg, auditLogger, restVars>>
    \/ SaveSettles /\ UNCHANGED <<op, httpVars, queryArg, auditLogger, restVars>>
    \/ WelcomeEmailSettles /\ UNCHANGED <<op, httpVars, queryArg, auditLogger, restVars>>

\* no HttpClient takes part in a run of a use case against the interfaces
HttpUnused ==
    /\ options = [retryAttempts |-> Undefined]
    /\ retryAttempts = ConstructorRetryAttempts(options)
    /\ optSignal = FALSE
    /\ signalAborted = FALSE
    /\ hpc = "idle"
    /\ attemptsLeft = 0
    /\ fetchCount = 0
    /\ timers = <<>>
    /\ outcomes = <<>>
    /\ httpResult = Pending

InitCreateUser == op = "createUser" /\ HttpUnused /\ UseCaseIdle /\ RestIdle

SpecCreateUser == InitCreateUser /\ [][CreateUserNext]_vars

-----------------------------------------------------------------------------
(* What the use cases below share.                                         *)

\* the promise of execute rejects with e
Reject(e) ==
    /\ upc' = "done"
    /\ result' = [settled |-> "rejected", value |-> Failure(e)]

\* the user the repository holds
ExistingUser ==
    [id |-> "u1", email |-> <<"a", "@", "b", ".", "c">>,
     firstName |-> <<"J", "o">>, lastName |-> <<"D", "o", "e">>,
     avatar |-> NoString, isActive |-> TRUE, roles |-> <<"user">>]

UserIds == {<<>>, <<" ">>, <<"u", "1">>}

\* how userRepository.findById may settle: the user, null, a failure, a throw
FindByIdOutcomes ==
    {Returns(Success(FALSE, ExistingUser)), Returns(Success(FALSE, NoUser)),
     Returns(Failure(PlainError("Database connection failed")))}
        \cup {Throws(e) : e \in DependencyErrors}

-----------------------------------------------------------------------------
(* GetUserUseCase (domain/use-cases/GetUser.ts).                           *)

\* the catch block of execute
GetUserCatch(error) ==
    Return(Failure(IF IsErrorInstance(error) THEN error
                   ELSE PlainError("Unbekannter Fehler beim Abrufen des Benutzers")))

\* execute(input), up to its await of findById
GetUserExecute(in) ==
    /\ op = "getUser"
    /\ upc = "idle"
    /\ input' = in
    /\ IF IsBlank(in.id)
       THEN Return(Failure(DomainError("Benutzer-ID ist erforderlich",
                                       "INVALID_INPUT")))
            /\ UNCHANGED calls
       ELSE Call("findById")
    /\ UNCHANGED <<returned, saveArg, sideTask, queryArg, auditLogger>>

\* userRepository.findById settles
GetUserFindById(o) ==
    /\ op = "getUser"
    /\ upc = "findById"
    /\ returned' = [returned EXCEPT !["findById"] = o]
    /\ IF o.how = "throw"
       THEN GetUserCatch(o.error)
       ELSE IF ~o.value.success
       THEN Return(Failure(o.value.error))
       ELSE IF o.value.user = NoUser
       THEN Return(Failure(NotFoundError("Benutzer", input.id)))
       ELSE Return(Success(FALSE, o.value.user))
    /\ UNCHANGED <<input, calls, saveArg, sideTask, queryArg, auditLogger>>

GetUserInputs == {[id |-> i] : i \in UserIds}

GetUser == \E in \in GetUserInputs : GetUserExecute(in)
GetUserFindByIdSettles == \E o \in FindByIdOutcomes : GetUserFindById(o)

-----------------------------------------------------------------------------
(* ListUsersUseCase (domain/use-cases/ListUsers.ts).                       *)

MinPageSize == 5
MaxPageSize == 100
DefaultPageSize == 10
MaxSearchLength == 100

Max(a, b) == IF a >= b THEN a ELSE b
Min(a, b) == IF a <= b THEN a ELSE b

\* a normalisation that lets an oversized pageSize through
normalizePaginationUnclamped(pagination) ==
    [given |-> TRUE,
     page |-> Num(Max(1, OrDefault(pagination.page, 1))),
     pageSize |-> Num(Max(MinPageSize,
                          OrDefault(pagination.pageSize, DefaultPageSize))),
     sortBy |-> IF pagination.sortBy = "" THEN "createdAt"
                ELSE pagination.sortBy,
     sortOrder |-> IF pagination.sortOrder = "" THEN "desc"
                   ELSE pagination.sortOrder]

\* normalizePagination(pagination)
normalizePagination(pagination) ==
    [given |-> TRUE,
     page |-> Num(Max(1, OrDefault(pagination.page, 1))),
     pageSize |-> Num(Min(MaxPageSize,
                          Max(MinPageSize,
                              OrDefault(pagination.pageSize, DefaultPageSize)))),
     sortBy |-> IF pagination.sortBy = "" THEN "createdAt"
                ELSE pagination.sortBy,
     sortOrder |-> IF pagination.sortOrder = "" THEN "desc"
                   ELSE pagination.sortOrder]

\* validateFilters(filters): Result<void>; a Date object is truthy
validateFilters(filters) ==
    IF ~filters.given
    THEN SuccessVoid
    ELSE IF \/ filters.search # <<>> /\ Len(filters.search) > MaxSearchLength
            \/ /\ filters.dateFrom.defined
               /\ filters.dateTo.defined
               /\ filters.dateFrom.value > filters.dateTo.value
            \/ /\ filters.status # ""
               /\ filters.status \notin {"active", "inactive", "all"}
    THEN Failure(DomainError("errors.join(', ')", "VALIDATION_ERROR"))
    ELSE SuccessVoid

\* filters that ask for the active users whatever status the input names
buildFiltersAlwaysActive(inputFilters, includeInactive) ==
    IF includeInactive THEN [inputFilters EXCEPT !.given = TRUE]
    ELSE [inputFilters EXCEPT !.given = TRUE, !.status = "active"]

\* buildFilters(inputFilters, includeInactive): a copy of the input
\* filters, with status 'active' when nothing else is asked for
buildFilters(inputFilters, includeInactive) ==
    LET filters == [inputFilters EXCEPT !.given = TRUE]
    IN  IF ~includeInactive /\ filters.status = ""
        THEN [filters EXCEPT !.status = "active"]
        ELSE filters

\* the catch block of execute
ListUsersCatch(error) ==
    Return(Failure(IF IsErrorInstance(error) THEN error
                   ELSE PlainError("Unbekannter Fehler beim Auflisten der Benutzer")))

\* execute(input), up to its await of findAll; normalizePagination reads
\* the fields of input.pagination and throws when there is none
ListUsersExecute(in) ==
    /\ op = "listUsers"
    /\ upc = "idle"
    /\ input' = in
    /\ IF ~in.pagination.given
       THEN ListUsersCatch(JsTypeError("pagination is undefined"))
            /\ UNCHANGED <<calls, queryArg>>
       ELSE IF ~validateFilters(in.filters).success
       THEN Return(validateFilters(in.filters)) /\ UNCHANGED <<calls, queryArg>>
       ELSE /\ queryArg' = [pagination |-> normalizePagination(in.pagination),
                            filters |-> buildFilters(in.filters,
                                                     in.includeInactive)]
            /\ Call("findAll")
    /\ UNCHANGED <<returned, saveArg, sideTask, auditLogger>>

\* userRepository.findAll settles
ListUsersFindAll(o) ==
    /\ op = "listUsers"
    /\ upc = "findAll"
    /\ returned' = [returned EXCEPT !["findAll"] = o]
    /\ IF o.how = "throw"
       THEN ListUsersCatch(o.error)
       ELSE IF ~o.value.success
       THEN Return(Failure(o.value.error))
       ELSE Return(Success(FALSE, o.value.user))
    /\ UNCHANGED <<input, calls, saveArg, sideTask, queryArg, auditLogger>>

\* how userRepository.findAll may settle: a page (holding the user of the
\* repository), a failure, a throw
FindAllOutcomes ==
    {Returns(Success(FALSE, ExistingUser)),
     Returns(Failure(PlainError("Database connection failed")))}
        \cup {Throws(e) : e \in DependencyErrors}

Pages == {Undefined, Num(0), Num(-3), Num(1), Num(7)}
PageSizes == {Undefined, Num(0), Num(3), Num(MinPageSize), Num(50),
              Num(MaxPageSize), Num(500)}
Paginations ==
    {NoPagination} \cup
    [given : {TRUE}, page : Pages, pageSize : PageSizes,
     sortBy : {"", "email"}, sortOrder : {"", "asc"}]
Filters ==
    {NoFilters} \cup
    [given : {TRUE},
     search : {<<>>, <<"j", "o">>, Repeat("s", MaxSearchLength + 1)},
     status : {"", "inactive", "banned"},
     dateFrom : {Undefined, Num(2)}, dateTo : {Undefined, Num(1), Num(3)}]
ListUsersInputs ==
    [pagination : Paginations, filters : Filters, includeInactive : BOOLEAN]

ListUsers == upc = "idle" /\ \E in \in ListUsersInputs : ListUsersExecute(in)
ListUsersFindAllSettles == \E o \in FindAllOutcomes : ListUsersFindAll(o)

-----------------------------------------------------------------------------
(* User.updateProfile (domain/entities/User.ts).                           *)

\* a merge that copies updates.avatar even when it is undefined
UserMergeUpdatesOverwriting(user, updates) ==
    [user EXCEPT
        !.firstName = IF updates.firstName.defined
                      THEN updates.firstName.value ELSE @,
        !.lastName = IF updates.lastName.defined
                     THEN updates.lastName.value ELSE @,
        !.email = IF updates.email.defined THEN updates.email.value ELSE @,
        !.avatar = updates.avatar]

\* { ...this.props, ...updates }
UserMergeUpdates(user, updates) ==
    [user EXCEPT
        !.firstName = IF updates.firstName.defined
                      THEN updates.firstName.value ELSE @,
        !.lastName = IF updates.lastName.defined
                     THEN updates.lastName.value ELSE @,
        !.email = IF updates.email.defined THEN updates.email.value ELSE @,
        !.avatar = IF updates.avatar.defined THEN updates.avatar ELSE @]

\* the error updateProfile throws, or NoError: a truthy name is validated,
\* then the constructor validates the merged props
UserUpdateProfileError(user, updates) ==
    IF /\ updates.firstName.defined
       /\ updates.firstName.value # <<>>
       /\ validateName(updates.firstName.value, "vorname") # NoError
    THEN validateName(updates.firstName.value, "vorname")
    ELSE IF /\ updates.lastName.defined
            /\ updates.lastName.value # <<>>
            /\ validateName(updates.lastName.value, "nachname") # NoError
    THEN validateName(updates.lastName.value, "nachname")
    ELSE IF /\ updates.email.defined
            /\ updates.email.value # <<>>
            /\ validateEmail(updates.email.value) # NoError
    THEN validateEmail(updates.email.value)
    ELSE UserConstructorError(UserMergeUpdates(user, updates))

-----------------------------------------------------------------------------
(* UpdateUserUseCase (domain/use-cases/UpdateUser.ts).                     *)

UpdateNameMaxLength == 50

\* UpdateUserInput.updates has no email
NoUpdates == [given |-> FALSE, firstName |-> NoName, lastName |-> NoName,
              email |-> NoName, avatar |-> NoString]

\* new URL(s) does not throw
IsUrl(s) == s \in {"https://a.example/j.png"}

\* validateInput(input) pushed at least one error
UpdateUserInputErrors(in) ==
    \/ IsBlank(in.id)
    \/ ~in.updates.given
    \/ /\ ~in.updates.firstName.defined
       /\ ~in.updates.lastName.defined
       /\ ~in.updates.avatar.defined
    \/ /\ in.updates.firstName.defined
       /\ \/ Len(Trim(in.updates.firstName.value)) = 0
          \/ Len(in.updates.firstName.value) > UpdateNameMaxLength
    \/ /\ in.updates.lastName.defined
       /\ \/ Len(Trim(in.updates.lastName.value)) = 0
          \/ Len(in.updates.lastName.value) > UpdateNameMaxLength
    \/ /\ in.updates.avatar.defined
       /\ in.updates.avatar.value # ""
       /\ ~IsUrl(in.updates.avatar.value)

\* validateInput(input): it reads input.updates.firstName, and throws
\* when input.updates is undefined
UpdateUserValidateInput(in) ==
    IF ~in.updates.given
    THEN Throws(JsTypeError("input.updates is undefined"))
    ELSE IF UpdateUserInputErrors(in)
    THEN Returns(Failure(DomainError("errors.join(', ')", "VALIDATION_ERROR")))
    ELSE Returns(SuccessVoid)

\* a comparison that finds a change in every update
hasChangesAlways(currentUser, updates) == updates.given

\* hasChanges(currentUser, updates)
hasChanges(currentUser, updates) ==
    \/ /\ updates.firstName.defined
       /\ updates.firstName.value # currentUser.firstName
    \/ /\ updates.lastName.defined
       /\ updates.lastName.value # currentUser.lastName
    \/ updates.avatar.defined /\ updates.avatar # currentUser.avatar

\* logChanges: Object.keys(changes).length > 0
HasLoggedChanges(oldUser, newUser) ==
    \/ oldUser.firstName # newUser.firstName
    \/ oldUser.lastName # newUser.lastName
    \/ oldUser.avatar # newUser.avatar

\* the catch block of execute
UpdateUserCatch(error) ==
    Return(Failure(IF IsErrorInstance(error) THEN error
                   ELSE PlainError("Unbekannter Fehler beim Aktualisieren des Benutzers")))

\* new UpdateUserUseCase(userRepository, logger?).execute(input), up to its
\* await of findById
UpdateUserExecute(in, logger) ==
    /\ op = "updateUser"
    /\ upc = "idle"
    /\ input' = in
    /\ auditLogger' = logger
    /\ LET v == UpdateUserValidateInput(in)
       IN  IF v.how = "throw"
           THEN UpdateUserCatch(v.error) /\ UNCHANGED calls
           ELSE IF ~v.value.success
           THEN Return(v.value) /\ UNCHANGED calls
           ELSE Call("findById")
    /\ UNCHANGED <<returned, saveArg, sideTask, queryArg>>

\* userRepository.findById settles; then hasChanges, updateProfile and the
\* call of update
UpdateUserFindById(o) ==
    /\ op = "updateUser"
    /\ upc = "findById"
    /\ returned' = [returned EXCEPT !["findById"] = o]
    /\ IF o.how = "throw"
       THEN UpdateUserCatch(o.error) /\ UNCHANGED <<calls, saveArg>>
       ELSE IF ~o.value.success
       THEN Return(Failure(o.value.error)) /\ UNCHANGED <<calls, saveArg>>
       ELSE IF o.value.user = NoUser
       THEN Return(Failure(NotFoundError("Benutzer", input.id)))
            /\ UNCHANGED <<calls, saveArg>>
       ELSE IF ~hasChanges(o.value.user, input.updates)
       THEN Return(Success(FALSE, o.value.user)) /\ UNCHANGED <<calls, saveArg>>
       ELSE IF UserUpdateProfileError(o.value.user, input.updates) # NoError
       THEN UpdateUserCatch(UserUpdateProfileError(o.value.user, input.updates))
            /\ UNCHANGED <<calls, saveArg>>
       ELSE /\ saveArg' = UserMergeUpdates(o.value.user, input.updates)
            /\ Call("update")
    /\ UNCHANGED <<input, sideTask, queryArg, auditLogger>>

\* userRepository.update settles; with an auditLogger, logChanges is
\* awaited, and it awaits logUserUpdate when a field changed
UpdateUserUpdate(o) ==
    /\ op = "updateUser"
    /\ upc = "update"
    /\ returned' = [returned EXCEPT !["update"] = o]
    /\ IF o.how = "throw"
       THEN UpdateUserCatch(o.error) /\ UNCHANGED calls
       ELSE IF ~o.value.success
       THEN Return(Failure(o.value.error)) /\ UNCHANGED calls
       ELSE IF /\ auditLogger
               /\ HasLoggedChanges(returned["findById"].value.user, saveArg)
       THEN Call("logUserUpdate")
       ELSE Return(Success(FALSE, o.value.user)) /\ UNCHANGED calls
    /\ UNCHANGED <<input, saveArg, sideTask, queryArg, auditLogger>>

\* logChanges without its try: a throw or a rejection of logUserUpdate
\* reaches the catch block of execute
UpdateUserLogUserUpdateUncaught(o) ==
    /\ op = "updateUser"
    /\ upc = "logUserUpdate"
    /\ returned' = [returned EXCEPT !["logUserUpdate"] = o]
    /\ IF o.how = "throw"
       THEN UpdateUserCatch(o.error)
       ELSE Return(Success(FALSE, returned["update"].value.user))
    /\ UNCHANGED <<input, calls, saveArg, sideTask, queryArg, auditLogger>>

\* auditLogger.logUserUpdate settles: a throw or a rejection is caught in
\* logChanges and logged, and execute returns the updated user
UpdateUserLogUserUpdate(o) ==
    /\ op = "updateUser"
    /\ upc = "logUserUpdate"
    /\ returned' = [returned EXCEPT !["logUserUpdate"] = o]
    /\ Return(Success(FALSE, returned["update"].value.user))
    /\ UNCHANGED <<input, calls, saveArg, sideTask, queryArg, auditLogger>>

UpdateFirstNames == {NoName, Name(<<" ">>), Name(<<"J", "o">>),
                     Name(<<"A", "l">>), Name(<<"A">>),
                     Name(Repeat("a", NameMaxLength + 1))}
UpdateLastNames == {NoName, Name(<<"D", "o", "e">>), Name(<<"R", "o", "e">>)}
UpdateAvatars == {NoString, String(""), String("https://a.example/j.png"),
                  String("not a url")}
UpdateUserInputs ==
    [id : UserIds,
     updates : {NoUpdates} \cup
               [given : {TRUE}, firstName : UpdateFirstNames,
                lastName : UpdateLastNames, email : {NoName},
                avatar : UpdateAvatars]]

UpdateUser ==
    /\ upc = "idle"
    /\ \E in \in UpdateUserInputs, logger \in BOOLEAN :
           UpdateUserExecute(in, logger)
UpdateUserFindByIdSettles == \E o \in FindByIdOutcomes : UpdateUserFindById(o)
UpdateUserUpdateSettles == \E o \in UserOutcomes(saveArg) : UpdateUserUpdate(o)
UpdateUserLogSettles == \E o \in ValueOutcomes : UpdateUserLogUserUpdate(o)

-----------------------------------------------------------------------------
(* UserApiRepository (infrastructure/repositories/UserApiRepository.ts).   *)

\* how a request of the HttpClient settles: with what handleResponse
\* returns, or with createApiError of what was thrown
HttpClientOutcomes ==
    {IF handleResponse(s, t, r).threw
     THEN Rejected(createApiError(handleResponse(s, t, r).thrown))
     ELSE Resolved(handleResponse(s, t, r).value) :
         s \in Statuses, t \in Texts, r \in BOOLEAN}
        \cup {Rejected(createApiError(TypeErrorOf(m))) :
                  m \in FetchFailureMessages}
        \cup {Rejected(createApiError(AbortError))}

UserMethods == {"findById", "save", "update", "reactivate"}
PageMethods == {"findAll", "search", "findActive", "findByRole"}
ListMethods == {"findRecentUsers", "findByLastLoginDate", "updateMany"}
VoidMethods == {"delete", "softDelete"}
FieldMethods == {"emailExists", "count", "countActive"}
RepositoryMethods ==
    UserMethods \cup {"findByEmail"} \cup PageMethods \cup ListMethods
        \cup VoidMethods \cup FieldMethods

\* the methods that compute something from their arguments before the
\* request: buildQueryParams, mapUserToApiData, date.toISOString
PreparingMethods ==
    PageMethods \cup {"save", "update", "findByLastLoginDate", "updateMany"}

\* reading a property of this data throws
IsNullish(data) == data \in {"", "null"}

\* the props mapApiDataToUser reads from the data: those of the user of
\* the repository, or undefined ones
ApiDataProps(data) == IF data = "u1" THEN ExistingUser ELSE NoUser

\* mapApiDataToUser(data): User.fromPersistence may throw
mapApiDataToUser(data) ==
    IF IsNullish(data)
    THEN Throws(JsTypeError("Cannot read properties of null"))
    ELSE IF UserConstructorError(ApiDataProps(data)) # NoError
    THEN Throws(UserConstructorError(ApiDataProps(data)))
    ELSE Returns(Success(FALSE, ApiDataProps(data)))

\* what a method makes of response.data
RepositoryMapData(m, data) ==
    CASE m \in UserMethods -> mapApiDataToUser(data)
      [] m = "findByEmail" ->
           IF IsNullish(data)
           THEN Throws(JsTypeError("Cannot read properties of null"))
           ELSE mapApiDataToUser(IF data = "[u1]" THEN "u1" ELSE "")
      [] m \in PageMethods ->
           IF data = "{data:[u1],pagination:p}"
           THEN mapApiDataToUser("u1")
           ELSE Throws(JsTypeError("Cannot read properties of undefined"))
      [] m \in ListMethods ->
           IF data = "[u1]"
           THEN mapApiDataToUser("u1")
           ELSE Throws(JsTypeError("response.data.map is not a function"))
      [] m \in FieldMethods ->
           IF IsNullish(data)
           THEN Throws(JsTypeError("Cannot read properties of null"))
           ELSE Returns(Success(data = "u1", NoUser))
      [] OTHER -> Returns(SuccessVoid)

\* a catch block that lets the error out
RepositoryCatchRethrows(m, error) == Reject(error)

\* the catch block of every method
RepositoryCatch(m, error) ==
    Return(Failure(IF IsErrorInstance(error) THEN error
                   ELSE PlainError("Fehler beim " \o m)))

\* a method is called, up to its await of the request; argsThrow: what it
\* computes from its arguments throws
RepositoryCall(m, argsThrow) ==
    /\ op = "repository"
    /\ upc = "idle"
    /\ argsThrow => m \in PreparingMethods
    /\ input' = [method |-> m]
    /\ IF argsThrow
       THEN RepositoryCatch(m, JsTypeError("Cannot read properties of undefined"))
            /\ UNCHANGED calls
       ELSE Call("http")
    /\ UNCHANGED <<returned, saveArg, sideTask, queryArg, auditLogger>>

\* the request of the HttpClient settles with o
RepositoryHttpSettles(o) ==
    /\ op = "repository"
    /\ upc = "http"
    /\ hpc' = o.settled
    /\ httpResult' = o
    /\ IF o.settled = "rejected"
       THEN RepositoryCatch(input.method, NonError("ApiErrorResponse"))
       ELSE IF ~o.value.success
       THEN IF ~o.value.hasError
            THEN RepositoryCatch(input.method,
                                 JsTypeError("Cannot read properties of undefined"))
            ELSE IF input.method = "findById" /\ o.value.code = "NOT_FOUND"
            THEN Return(Success(FALSE, NoUser))
            ELSE Return(Failure(PlainError(o.value.errorMessage)))
       ELSE LET mapped == RepositoryMapData(input.method, o.value.data)
            IN  IF mapped.how = "throw"
                THEN RepositoryCatch(input.method, mapped.error)
                ELSE Return(mapped.value)
    /\ UNCHANGED <<options, retryAttempts, optSignal, signalAborted,
                   attemptsLeft, fetchCount, timers, outcomes>>
    /\ UNCHANGED <<input, calls, returned, saveArg, sideTask, queryArg,
                   auditLogger>>

RepositoryMethod ==
    \E m \in RepositoryMethods, argsThrow \in BOOLEAN : RepositoryCall(m, argsThrow)
RepositoryRequestSettles ==
    upc = "http" /\ \E o \in HttpClientOutcomes : RepositoryHttpSettles(o)

-----------------------------------------------------------------------------
(* Every use case and every repository method, each against all the        *)
(* behaviours of what it depends on.                                        *)

ResultOperations == {"createUser", "getUser", "listUsers", "updateUser",
                     "repository"}

ResultNext ==
    \/ CreateUserNext
    \/ GetUser /\ UNCHANGED <<op, httpVars, restVars>>
    \/ GetUserFindByIdSettles /\ UNCHANGED <<op, httpVars, restVars>>
    \/ ListUsers /\ UNCHANGED <<op, httpVars, restVars>>
    \/ ListUsersFindAllSettles /\ UNCHANGED <<op, httpVars, restVars>>
    \/ UpdateUser /\ UNCHANGED <<op, httpVars, restVars>>
    \/ UpdateUserFindByIdSettles /\ UNCHANGED <<op, httpVars, restVars>>
    \/ UpdateUserUpdateSettles /\ UNCHANGED <<op, httpVars, restVars>>
    \/ UpdateUserLogSettles /\ UNCHANGED <<op, httpVars, restVars>>
    \/ RepositoryMethod /\ UNCHANGED <<op, httpVars, restVars>>
    \/ RepositoryRequestSettles /\ UNCHANGED <<op, restVars>>

InitResult ==
    op \in ResultOperations /\ HttpUnused /\ UseCaseIdle /\ RestIdle

SpecResult == InitResult /\ [][ResultNext]_vars

-----------------------------------------------------------------------------
(* Properties of CreateUserUseCase.execute.                                *)

Called(d) == \E i \in 1..Len(calls) : calls[i] = d
ReturnedSuccess(d) == returned[d].how = "return" /\ returned[d].value.success
ReturnedFailure(d) == returned[d].how = "return" /\ ~returned[d].value.success
Done == upc = "done" /\ result.settled = "resolved"

\* C6: when execute returns a failure whose error is a ValidationError, no
\* dependency has been called.
C6_ValidationFailureCallsNothing ==
    (Done /\ ~result.value.success
          /\ result.value.error.name = "ValidationError") => calls = <<>>

CreateUserCallOrder == <<"emailExists", "hash", "save", "sendWelcomeEmail">>

\* C8: the dependencies are called in the order emailExists, hash, save,
\* sendWelcomeEmail, each at most once and only after the steps before it
\* succeeded; an existing email ends execute with EMAIL_ALREADY_EXISTS
\* after emailExists alone, and a failed save sends no email.
C8_CallsInOrderAfterSuccess ==
    /\ \E n \in 0..4 : calls = SubSeq(CreateUserCallOrder, 1, n)
    /\ Called("emailExists") => CreateUserValidateInput(input).success
    /\ Called("hash") =>
           ReturnedSuccess("emailExists") /\ ~returned["emailExists"].value.flag
    /\ Called("save") => returned["hash"].how = "return"
    /\ Called("sendWelcomeEmail") => ReturnedSuccess("save")
    /\ (ReturnedSuccess("emailExists") /\ returned["emailExists"].value.flag) =>
           /\ Done
           /\ ~result.value.success
           /\ result.value.error.name = "DomainError"
           /\ result.value.error.code = "EMAIL_ALREADY_EXISTS"
           /\ calls = <<"emailExists">>
    /\ (returned["save"].how # "none" /\ ~ReturnedSuccess("save")) =>
           ~Called("sendWelcomeEmail")

C8_Witness ==
    /\ calls = CreateUserCallOrder
    /\ Done
    /\ result.value.success

\* C9: once validation, emailExists, hash and save have succeeded, execute
\* has returned success with the saved user, whatever sendWelcomeEmail does
\* (pending, resolved, rejected, thrown), and the un-awaited promise never
\* rejects.
C9_WelcomeEmailFireAndForget ==
    /\ ReturnedSuccess("save") =>
           /\ Done
           /\ result.value = Success(FALSE, returned["save"].value.user)
    /\ sideTask # "rejected"

C9_Witness ==
    /\ ReturnedSuccess("save")
    /\ Done
    /\ result.value.success
    /\ sideTask = "pending"

\* C10: a failure returned by emailExists or save, and an Error hash
\* rejects with, is the error of the result, unchanged; on success the user
\* of the result is the entity save returned.
C10_FailurePropagatedUnchanged ==
    Done =>
        /\ ReturnedFailure("emailExists") =>
               result.value = Failure(returned["emailExists"].value.error)
        /\ ReturnedFailure("save") =>
               result.value = Failure(returned["save"].value.error)
        /\ (returned["hash"].how = "throw"
                /\ IsErrorInstance(returned["hash"].error)) =>
               result.value = Failure(returned["hash"].error)
        /\ result.value.success =>
               /\ ReturnedSuccess("save")
               /\ result.value.user = returned["save"].value.user

C10_Witness ==
    /\ Done
    /\ returned["hash"].how = "throw"
    /\ IsErrorInstance(returned["hash"].error)
    /\ result.value = Failure(returned["hash"].error)

-----------------------------------------------------------------------------
(* The specification of one HttpClient request.                            *)

HttpRequest == \E signal \in BOOLEAN : op = "http" /\ HttpStart(signal)
FetchResolves ==
    \E status \in Statuses, text \in Texts, readable \in BOOLEAN :
        HttpFetchResolves(status, text, readable)
FetchFails == \E msg \in FetchFailureMessages : HttpFetchFails(msg)
FetchAborted == HttpFetchAborted
TimeoutFires == \E i \in 1..Len(timers) : HttpTimeoutFires(i)
CallerAborts == HttpCallerAborts
DelayElapses == HttpDelayElapses

HttpNext ==
    \/ HttpRequest /\ UNCHANGED <<op, ucVars, restVars>>
    \/ FetchResolves /\ UNCHANGED <<op, ucVars, restVars>>
    \/ FetchFails /\ UNCHANGED <<op, ucVars, restVars>>
    \/ FetchAborted /\ UNCHANGED <<op, ucVars, restVars>>
    \/ TimeoutFires /\ UNCHANGED <<op, ucVars, restVars>>
    \/ CallerAborts /\ UNCHANGED <<op, ucVars, restVars>>
    \/ DelayElapses /\ UNCHANGED <<op, ucVars, restVars>>

InitHttp == op = "http" /\ HttpInit /\ UseCaseIdle /\ RestIdle

SpecHttp == InitHttp /\ [][HttpNext]_vars

-----------------------------------------------------------------------------
(* Properties of the HttpClient request.                                   *)

LastOutcome == IF outcomes = <<>> THEN NoOutcome ELSE outcomes[Len(outcomes)]
IsHttpError(o) == o.event = "response" /\ ~ResponseOk(o.status)
IsTransportFailure(o) == o.event \in {"TypeError", "AbortError"}
\* attempt i was followed by another attempt, or is about to be
Retried(i) == i < fetchCount \/ (i = fetchCount /\ hpc = "delaying")

IsNetworkError(o) == o.event = "TypeError"
IsTimeoutAbort(o) == o.event = "AbortError" /\ o.cause = "timeout"

\* C1: an attempt is followed by another one only if its fetch failed with
\* a network error (TypeError) or a timeout abort (AbortError); an attempt
\* answered with a non-2xx response is the last fetch of the request, and
\* the request rejects.
C1_RetryOnlyAfterNetworkOrTimeout ==
    \A i \in 1..Len(outcomes) :
        /\ Retried(i) => IsNetworkError(outcomes[i]) \/ IsTimeoutAbort(outcomes[i])
        /\ IsHttpError(outcomes[i]) =>
               i = fetchCount /\ hpc = "rejected"
                   /\ httpResult.settled = "rejected"

\* The part of C1 that the code keeps: whatever is retried threw a TypeError
\* or an AbortError (of any cause), and a non-2xx response is never retried.
HttpErrorNeverRetried ==
    \A i \in 1..Len(outcomes) :
        /\ Retried(i) => IsTransportFailure(outcomes[i])
        /\ IsHttpError(outcomes[i]) =>
               i = fetchCount /\ hpc = "rejected"
                   /\ httpResult.settled = "rejected"

\* C2: a request makes at most retryAttempts + 1 fetch calls, attemptsLeft
\* goes down by one with every retry and never below zero, and a failure of
\* the last allowed attempt rejects the request.
C2_RetriesBounded ==
    /\ fetchCount <= retryAttempts + 1
    /\ fetchCount >= 1 =>
           attemptsLeft = retryAttempts - (fetchCount - 1) /\ attemptsLeft >= 0
    /\ (Len(outcomes) = retryAttempts + 1 /\ ~(hpc = "resolved")) =>
           hpc = "rejected"

C2_Witness ==
    /\ retryAttempts = 2
    /\ fetchCount = 3
    /\ Len(outcomes) = 3
    /\ \A i \in 1..3 : IsTransportFailure(outcomes[i])
    /\ hpc = "rejected"

\* C3: a client constructed with options.retryAttempts = n makes at most n
\* retries, so at most n + 1 fetch calls, for every n >= 0 (one fetch for 0).
C3_ConfiguredRetryCountHonoured ==
    options.retryAttempts.defined =>
        fetchCount <= options.retryAttempts.value + 1

\* C4: once the timeout of the current attempt has elapsed, the fetch of
\* that attempt is aborted, with or without a caller-supplied signal.
C4_TimeoutAbortsEveryAttempt ==
    (hpc = "fetching" /\ timers[fetchCount] = "fired") => FetchSignalAborted

\* C5: a request whose last attempt got a non-2xx response rejects with the
\* error createHttpError built for that response.
C5_HttpErrorReachesCaller ==
    (hpc = "rejected" /\ IsHttpError(LastOutcome)) =>
        httpResult.value =
            createHttpError(LastOutcome.status,
                            ResponseData(LastOutcome.text, LastOutcome.readable))

-----------------------------------------------------------------------------
(* Properties of the Result convention.                                     *)

\* { success: true, data } or { success: false, error }
IsResult(r) ==
    \/ r.success /\ r.error = NoError
    \/ ~r.success /\ r.error # NoError

\* the dependencies whose outcome execute awaits and builds its result on
AwaitedDependencies == {"emailExists", "hash", "save", "findById", "findAll",
                        "update"}

DependencyFailed(d) == returned[d].how = "throw" \/ ReturnedFailure(d)

\* the promise of an execute or of a repository method never rejects, and
\* what it resolves with is a Result
NeverRejects ==
    /\ result.settled # "rejected"
    /\ upc = "done" => result.settled = "resolved" /\ IsResult(result.value)

\* C7: every execute and every UserApiRepository method resolves to a
\* Result and never rejects, whatever its dependencies do; a failure
\* Result, a throw or a rejection of a dependency whose outcome is awaited
\* and used (emailExists, hash, save, findById, findAll, update, the
\* request of the HttpClient) yields { success: false, error }, and a
\* resolved response with success false does so too, except the NOT_FOUND
\* that findById turns into a null user.
C7_AlwaysResolvesToResult ==
    /\ NeverRejects
    /\ \A d \in AwaitedDependencies :
           DependencyFailed(d) => Done /\ ~result.value.success
    /\ (op = "repository" /\ httpResult.settled = "rejected") =>
           Done /\ ~result.value.success
    /\ (op = "repository" /\ httpResult.settled = "resolved"
            /\ ~httpResult.value.success
            /\ ~(input.method = "findById"
                   /\ httpResult.value.code = "NOT_FOUND")) =>
           Done /\ ~result.value.success

C7_Witness ==
    /\ op = "repository"
    /\ httpResult.settled = "rejected"
    /\ Done
    /\ ~result.value.success
    /\ result.value.error = PlainError("Fehler beim " \o input.method)

\* the same with every dependency, the best-effort side effects
\* sendWelcomeEmail and logUserUpdate included: whenever one of them
\* failed, threw or rejected, a settled result is a failure
C7_EveryDependencyFailureYieldsFailure ==
    /\ NeverRejects
    /\ \A d \in Dependencies :
           (DependencyFailed(d) /\ Done) => ~result.value.success

-----------------------------------------------------------------------------
(* domain/entities/User.ts: the methods of an instance.                    *)

\* new User(props), as the last statement of a method: the constructor
\* validates and throws, or the instance is returned; newArrays holds the
\* array the method made for props.roles, if it made one
UserConstructor(method, receiver, targets, props, newArrays) ==
    LET call == [method |-> method, receiver |-> receiver,
                 before |-> IF receiver = 0 THEN NoProps ELSE users[receiver],
                 beforeRoles |-> IF receiver = 0 THEN <<>>
                                 ELSE arrays[users[receiver].roles],
                 targets |-> targets, candidate |-> props,
                 threw |-> FALSE, error |-> NoError, result |-> 0]
    IN  IF UserConstructorError(props) # NoError
        THEN /\ lastCall' = [call EXCEPT !.threw = TRUE,
                                         !.error = UserConstructorError(props)]
             /\ UNCHANGED <<users, arrays>>
        ELSE /\ users' = Append(users, props)
             /\ arrays' = newArrays
             /\ lastCall' = [call EXCEPT !.result = Len(users) + 1]

\* a method throws before it reaches the constructor
UserThrow(method, receiver, targets, props, error) ==
    /\ lastCall' = [method |-> method, receiver |-> receiver,
                    before |-> users[receiver],
                    beforeRoles |-> arrays[users[receiver].roles],
                    targets |-> targets, candidate |-> props,
                    threw |-> TRUE, error |-> error, result |-> 0]
    /\ UNCHANGED <<users, arrays>>

\* an optional boolean of the caller: absent, or a value
NoBoolean == [defined |-> FALSE, value |-> FALSE]
Boolean(b) == [defined |-> TRUE, value |-> b]

\* x ?? d
NullishOr(x, d) == IF x.defined THEN x.value ELSE d

\* crypto.randomUUID()
RandomUUID == "uuid-" \o ToString(Len(users) + 1)

\* User.create(props): id, createdAt and updatedAt are set here; the roles
\* array is the caller's
UserCreateCall(props) ==
    /\ op \in UserOps
    /\ Len(users) < UserLimit
    /\ UserConstructor("create", 0, {},
           [id |-> RandomUUID, email |-> props.email,
            firstName |-> props.firstName, lastName |-> props.lastName,
            avatar |-> props.avatar,
            isActive |-> NullishOr(props.isActive, TRUE),
            roles |-> Len(arrays) + 1, lastLoginAt |-> Undefined,
            createdAt |-> clock, updatedAt |-> clock],
           Append(arrays, props.roles))
    /\ UNCHANGED clock

\* User.fromPersistence(props)
UserFromPersistence(props) ==
    /\ op \in UserOps
    /\ Len(users) < UserLimit
    /\ UserConstructor("fromPersistence", 0, {},
           [props EXCEPT !.roles = Len(arrays) + 1],
           Append(arrays, props.roles))
    /\ UNCHANGED clock

\* updateProfile(updates) on instance i
UserUpdateProfile(i, updates) ==
    /\ op \in UserOps
    /\ Len(users) < UserLimit
    /\ i \in 1..Len(users)
    /\ LET now == IF clock = users[i].updatedAt THEN clock + 1 ELSE clock
           targets == {f \in {"firstName", "lastName", "email", "avatar"} :
                           updates[f].defined}
           props == [UserMergeUpdates(users[i], updates)
                         EXCEPT !.updatedAt = now]
       IN  IF UserUpdateProfileError(users[i], updates) # NoError
           THEN UserThrow("updateProfile", i, targets, props,
                          UserUpdateProfileError(users[i], updates))
           ELSE UserConstructor("updateProfile", i, targets, props, arrays)
    /\ UNCHANGED clock

\* changeEmail(newEmail) on instance i
UserChangeEmail(i, newEmail) ==
    /\ op \in UserOps
    /\ Len(users) < UserLimit
    /\ i \in 1..Len(users)
    /\ LET props == [users[i] EXCEPT !.email = newEmail, !.updatedAt = clock]
       IN  IF validateEmail(newEmail) # NoError
           THEN UserThrow("changeEmail", i, {"email"}, props,
                          validateEmail(newEmail))
           ELSE IF newEmail = users[i].email
           THEN UserThrow("changeEmail", i, {"email"}, props,
                          DomainError("Neue E-Mail ist identisch",
                                      "EMAIL_UNCHANGED"))
           ELSE UserConstructor("changeEmail", i, {"email"}, props, arrays)
    /\ UNCHANGED clock

\* an activate() and deactivate() that do not look at the receiver's isActive
UserSetActiveUnguarded(i, active) ==
    /\ op \in UserOps
    /\ Len(users) < UserLimit
    /\ i \in 1..Len(users)
    /\ UserConstructor(IF active THEN "activate" ELSE "deactivate", i,
           {"isActive"},
           [users[i] EXCEPT !.isActive = active, !.updatedAt = clock], arrays)
    /\ UNCHANGED clock

\* activate() (active = TRUE) and deactivate() (active = FALSE) on instance i
UserSetActive(i, active) ==
    /\ op \in UserOps
    /\ Len(users) < UserLimit
    /\ i \in 1..Len(users)
    /\ LET method == IF active THEN "activate" ELSE "deactivate"
           props == [users[i] EXCEPT !.isActive = active, !.updatedAt = clock]
       IN  IF users[i].isActive = active
           THEN UserThrow(method, i, {"isActive"}, props,
                          IF active
                          THEN DomainError("Benutzer ist bereits aktiv",
                                           "USER_ALREADY_ACTIVE")
                          ELSE DomainError("Benutzer ist bereits deaktiviert",
                                           "USER_ALREADY_INACTIVE"))
           ELSE UserConstructor(method, i, {"isActive"}, props, arrays)
    /\ UNCHANGED clock

\* canLogin() on instance i
canLogin(i) == users[i].isActive

\* updateLastLogin() on instance i
UserUpdateLastLogin(i) ==
    /\ op \in UserOps
    /\ Len(users) < UserLimit
    /\ i \in 1..Len(users)
    /\ UserConstructor("updateLastLogin", i, {"lastLoginAt"},
           [users[i] EXCEPT !.lastLoginAt = Num(clock), !.updatedAt = clock],
           arrays)
    /\ UNCHANGED clock

\* roles.includes(role)
Includes(array, role) == \E k \in 1..Len(array) : array[k] = role

\* roles.filter(r => r !== role)
RECURSIVE Without(_, _)
Without(array, role) ==
    IF array = <<>> THEN <<>>
    ELSE IF Head(array) = role THEN Without(Tail(array), role)
    ELSE <<Head(array)>> \o Without(Tail(array), role)

\* an addRole that pushes the role onto the receiver's own array as well
UserAddRoleArraysInPlace(i, role) ==
    Append([arrays EXCEPT ![users[i].roles] = Append(@, role)],
           Append(arrays[users[i].roles], role))

\* the arrays after addRole's [...this.props.roles, role]: a new array
UserAddRoleArrays(i, role) ==
    Append(arrays, Append(arrays[users[i].roles], role))

\* an addRole that does not look for the role among the receiver's
UserAddRoleUnchecked(i, role) ==
    /\ op \in UserOps
    /\ Len(users) < UserLimit
    /\ i \in 1..Len(users)
    /\ UserConstructor("addRole", i, {"roles"},
           [users[i] EXCEPT !.roles = Len(arrays) + 1, !.updatedAt = clock],
           UserAddRoleArrays(i, role))
    /\ UNCHANGED clock

\* addRole(role) on instance i
UserAddRole(i, role) ==
    /\ op \in UserOps
    /\ Len(users) < UserLimit
    /\ i \in 1..Len(users)
    /\ LET props == [users[i] EXCEPT !.roles = Len(arrays) + 1,
                                     !.updatedAt = clock]
       IN  IF Includes(arrays[users[i].roles], role)
           THEN UserThrow("addRole", i, {"roles"}, props,
                          DomainError("Benutzer hat bereits die Rolle",
                                      "ROLE_ALREADY_EXISTS"))
           ELSE UserConstructor("addRole", i, {"roles"}, props,
                                UserAddRoleArrays(i, role))
    /\ UNCHANGED clock

\* removeRole(role) on instance i
UserRemoveRole(i, role) ==
    /\ op \in UserOps
    /\ Len(users) < UserLimit
    /\ i \in 1..Len(users)
    /\ LET props == [users[i] EXCEPT !.roles = Len(arrays) + 1,
                                     !.updatedAt = clock]
       IN  IF ~Includes(arrays[users[i].roles], role)
           THEN UserThrow("removeRole", i, {"roles"}, props,
                          DomainError("Benutzer hat die Rolle nicht",
                                      "ROLE_NOT_FOUND"))
           ELSE UserConstructor("removeRole", i, {"roles"}, props,
                                Append(arrays,
                                       Without(arrays[users[i].roles], role)))
    /\ UNCHANGED clock

\* time passes
ClockTick ==
    /\ op = "user"
    /\ clock < MaxClock
    /\ clock' = clock + 1
    /\ UNCHANGED <<users, arrays, lastCall>>

ValidEmail == <<"a", "@", "b", ".", "c">>
OtherEmail == <<"b", "@", "b", ".", "c">>
InvalidEmail == <<"a", "b">>

UserCreateInputs ==
    [email : {ValidEmail, InvalidEmail}, firstName : {<<"J", "o">>},
     lastName : {<<"D", "o", "e">>}, avatar : {NoString},
     isActive : {NoBoolean, Boolean(TRUE), Boolean(FALSE)},
     roles : {<<"user">>}]
\* what a store may hold: also an updatedAt that is ahead of the clock
UserPersistedProps ==
    [id : {"existing-user-id"}, email : {ValidEmail},
     firstName : {<<"J", "o">>}, lastName : {<<"D", "o", "e">>, <<"D", "1">>},
     avatar : {String("https://a.example/p.png")}, isActive : {FALSE},
     roles : {<<"user", "admin">>},
     lastLoginAt : {Undefined}, createdAt : {0}, updatedAt : {0, MaxClock + 1}]
UserProfileUpdates ==
    [given : {TRUE},
     firstName : {NoName, Name(<<>>), Name(<<"A", "l">>)},
     lastName : {NoName},
     email : {NoName, Name(InvalidEmail)},
     avatar : {NoString, String("https://a.example/j.png")}]
Roles == {"user", "admin"}

\* a run makes one instance with create or fromPersistence, and the others
\* with the update operations
Create == users = <<>> /\ \E props \in UserCreateInputs : UserCreateCall(props)
FromPersistence ==
    users = <<>> /\ \E props \in UserPersistedProps : UserFromPersistence(props)
UpdateProfile ==
    /\ Len(users) < UserLimit
    /\ \E i \in 1..Len(users), updates \in UserProfileUpdates :
           UserUpdateProfile(i, updates)
ChangeEmail ==
    \E i \in 1..Len(users), e \in {ValidEmail, OtherEmail, InvalidEmail} :
        UserChangeEmail(i, e)
Activate == \E i \in 1..Len(users) : UserSetActive(i, TRUE)
Deactivate == \E i \in 1..Len(users) : UserSetActive(i, FALSE)
UpdateLastLogin == \E i \in 1..Len(users) : UserUpdateLastLogin(i)
AddRole == \E i \in 1..Len(users), role \in Roles : UserAddRole(i, role)
RemoveRole == \E i \in 1..Len(users), role \in Roles : UserRemoveRole(i, role)

\* what the methods of User leave alone
notUserVars ==
    <<op, httpVars, ucVars, productVars, boundaryVars, raceVars, storageVars>>

UserNext ==
    \/ Create /\ UNCHANGED notUserVars
    \/ FromPersistence /\ UNCHANGED notUserVars
    \/ UpdateProfile /\ UNCHANGED notUserVars
    \/ ChangeEmail /\ UNCHANGED notUserVars
    \/ Activate /\ UNCHANGED notUserVars
    \/ Deactivate /\ UNCHANGED notUserVars
    \/ UpdateLastLogin /\ UNCHANGED notUserVars
    \/ AddRole /\ UNCHANGED notUserVars
    \/ RemoveRole /\ UNCHANGED notUserVars
    \/ ClockTick /\ UNCHANGED notUserVars

InitUser == op = "user" /\ HttpUnused /\ UseCaseIdle /\ RestIdle

SpecUser == InitUser /\ [][UserNext]_vars

-----------------------------------------------------------------------------
(* Properties of the User entity.                                          *)

UpdateMethods == {"updateProfile", "changeEmail", "activate", "deactivate",
                  "updateLastLogin", "addRole", "removeRole"}

\* the last call was an update operation that returned an instance
UpdateReturned == lastCall.method \in UpdateMethods /\ lastCall.result # 0

\* a name that is not blank, 2 to 50 characters long, of letters, spaces,
\* hyphens and apostrophes
ValidName(name) ==
    /\ \E k \in 1..Len(name) : ~IsWhitespace(name[k])
    /\ Len(name) >= 2
    /\ Len(name) <= 50
    /\ \A k \in 1..Len(name) :
           name[k] \in Letters \cup {" ", "\t", "-", "'"}

ValidUserProps(props) ==
    /\ EmailRegexTest(props.email)
    /\ ValidName(props.firstName)
    /\ ValidName(props.lastName)

UntargetedFields(targets) ==
    {"email", "firstName", "lastName", "avatar", "isActive", "lastLoginAt"}
        \ targets

\* C12: an update operation that returns an instance keeps the id and the
\* createdAt of the receiver, and every property other than updatedAt that
\* it does not target.
C12_UpdateKeepsIdentityAndUntouched ==
    UpdateReturned =>
        /\ users[lastCall.result].id = lastCall.before.id
        /\ users[lastCall.result].createdAt = lastCall.before.createdAt
        /\ \A f \in UntargetedFields(lastCall.targets) :
               users[lastCall.result][f] = lastCall.before[f]
        /\ "roles" \notin lastCall.targets =>
               arrays[users[lastCall.result].roles] = lastCall.beforeRoles

C12_Witness ==
    /\ UpdateReturned
    /\ lastCall.method = "updateProfile"
    /\ lastCall.targets = {"firstName"}
    /\ users[lastCall.result].firstName # lastCall.before.firstName
    /\ users[lastCall.result].email = lastCall.before.email

\* C13: an update operation that returns an instance gives it an updatedAt
\* strictly later than the receiver's.
C13_UpdatedAtStrictlyLater ==
    UpdateReturned =>
        users[lastCall.result].updatedAt > lastCall.before.updatedAt

\* C14: no step changes the props or the roles of an instance that exists,
\* whether the call returns or throws, and an update operation returns an
\* instance other than its receiver.
C14_UserImmutable ==
    [][/\ \A i \in 1..Len(users) :
             /\ i \in 1..Len(users')
             /\ users'[i] = users[i]
             /\ arrays'[users[i].roles] = arrays[users[i].roles]
       /\ lastCall'.result # 0 => lastCall'.result # lastCall'.receiver]_vars

C14_Witness ==
    /\ UpdateReturned
    /\ lastCall.method = "addRole"
    /\ arrays[users[lastCall.receiver].roles] = lastCall.beforeRoles
    /\ arrays[users[lastCall.result].roles] # lastCall.beforeRoles

-----------------------------------------------------------------------------
(* domain/entities/Product.ts.  An instance is its props object.  A number *)
(* of JavaScript is NaN or a multiple of 0.01, written in hundredths.  A   *)
(* description is what validateDescription reads of the string: its length *)
(* and whether it is empty or whitespace only.                             *)

\* the largest number of Product instances made in a run
MaxProducts == 2

NaN == [nan |-> TRUE, hundredths |-> 0]
Number(h) == [nan |-> FALSE, hundredths |-> h]
Whole(n) == Number(100 * n)

\* a < b, a <= b: false when an operand is NaN
Less(a, b) == ~a.nan /\ ~b.nan /\ a.hundredths < b.hundredths
LessOrEqual(a, b) == ~a.nan /\ ~b.nan /\ a.hundredths <= b.hundredths
\* a + b, a - b
Plus(a, b) ==
    IF a.nan \/ b.nan THEN NaN ELSE Number(a.hundredths + b.hundredths)
Minus(a, b) ==
    IF a.nan \/ b.nan THEN NaN ELSE Number(a.hundredths - b.hundredths)
\* Number.isInteger(a)
NumberIsInteger(a) == ~a.nan /\ a.hundredths % 100 = 0

ProductNameMinLength == 2
ProductNameMaxLength == 100
DescriptionMinLength == 10
DescriptionMaxLength == 1000
\* 999999.99
MaxPrice == Number(99999999)

\* the error validateName throws, or NoError
ProductValidateName(name) ==
    IF IsBlank(name)
    THEN ValidationError("Produktname ist erforderlich", "name")
    ELSE IF Len(name) < ProductNameMinLength
    THEN ValidationError("Produktname muss mindestens 2 Zeichen haben", "name")
    ELSE IF Len(name) > ProductNameMaxLength
    THEN ValidationError("Produktname darf maximal 100 Zeichen haben", "name")
    ELSE NoError

\* a string of n characters that are not all whitespace, and one of n
\* whitespace characters
Text(n) == [length |-> n, blank |-> n = 0]
BlankText(n) == [length |-> n, blank |-> TRUE]

\* the error validateDescription throws, or NoError
validateDescription(description) ==
    IF description.blank
    THEN ValidationError("Produktbeschreibung ist erforderlich", "description")
    ELSE IF description.length < DescriptionMinLength
    THEN ValidationError("Produktbeschreibung muss mindestens 10 Zeichen haben",
                         "description")
    ELSE IF description.length > DescriptionMaxLength
    THEN ValidationError("Produktbeschreibung darf maximal 1000 Zeichen haben",
                         "description")
    ELSE NoError

\* the error validatePrice throws, or NoError
validatePrice(price) ==
    IF Less(price, Whole(0))
    THEN ValidationError("Preis muss mindestens 0 sein", "price")
    ELSE IF Less(MaxPrice, price)
    THEN ValidationError("Preis ist zu hoch", "price")
    ELSE NoError

\* the error validateStock throws, or NoError
validateStock(stock) ==
    IF Less(stock, Whole(0))
    THEN ValidationError("Lagerbestand muss mindestens 0 sein", "inStock")
    ELSE IF ~NumberIsInteger(stock)
    THEN ValidationError("Lagerbestand muss eine ganze Zahl sein", "inStock")
    ELSE NoError

\* the error the constructor throws, or NoError
ProductConstructorError(props) ==
    IF ProductValidateName(props.name) # NoError
    THEN ProductValidateName(props.name)
    ELSE IF validateDescription(props.description) # NoError
    THEN validateDescription(props.description)
    ELSE IF validatePrice(props.price) # NoError
    THEN validatePrice(props.price)
    ELSE validateStock(props.inStock)

\* new Product(props), called by method on the instance receiver
ProductConstructor(method, receiver, props) ==
    LET call == [method |-> method, receiver |-> receiver, candidate |-> props,
                 threw |-> FALSE, error |-> NoError, result |-> 0]
    IN  IF ProductConstructorError(props) # NoError
        THEN /\ productCall' =
                    [call EXCEPT !.threw = TRUE,
                                 !.error = ProductConstructorError(props)]
             /\ UNCHANGED products
        ELSE /\ products' = Append(products, props)
             /\ productCall' = [call EXCEPT !.result = Len(products) + 1]

\* a method throws before it reaches the constructor
ProductThrow(method, receiver, props, error) ==
    /\ productCall' = [method |-> method, receiver |-> receiver,
                       candidate |-> props, threw |-> TRUE, error |-> error,
                       result |-> 0]
    /\ UNCHANGED products

\* Product.create(props): id, createdAt and updatedAt are set here
ProductCreateCall(props) ==
    /\ op = "product"
    /\ Len(products) < MaxProducts
    /\ ProductConstructor("create", 0,
           [props EXCEPT !.id = "uuid-" \o ToString(Len(products) + 1),
                         !.createdAt = clock, !.updatedAt = clock])
    /\ UNCHANGED clock

\* Product.fromPersistence(props)
ProductFromPersistence(props) ==
    /\ op = "product"
    /\ Len(products) < MaxProducts
    /\ ProductConstructor("fromPersistence", 0, props)
    /\ UNCHANGED clock

\* { ...this.props, ...updates }
ProductMergeUpdates(product, updates) ==
    [product EXCEPT
        !.name = IF updates.name.defined THEN updates.name.value ELSE @,
        !.description = IF updates.description.defined
                        THEN updates.description.value ELSE @,
        !.price = IF updates.price.defined THEN updates.price.value ELSE @,
        !.categoryId = IF updates.categoryId.defined
                       THEN updates.categoryId.value ELSE @]

\* the error updateBasicInfo throws before the constructor, or NoError: a
\* truthy name and description and a price other than undefined are validated
UpdateBasicInfoError(updates) ==
    IF /\ updates.name.defined
       /\ updates.name.value # <<>>
       /\ ProductValidateName(updates.name.value) # NoError
    THEN ProductValidateName(updates.name.value)
    ELSE IF /\ updates.description.defined
            /\ updates.description.value.length > 0
            /\ validateDescription(updates.description.value) # NoError
    THEN validateDescription(updates.description.value)
    ELSE IF updates.price.defined
    THEN validatePrice(updates.price.value)
    ELSE NoError

\* updateBasicInfo(updates) on instance i
ProductUpdateBasicInfo(i, updates) ==
    /\ op = "product"
    /\ Len(products) < MaxProducts
    /\ i \in 1..Len(products)
    /\ LET props == [ProductMergeUpdates(products[i], updates)
                         EXCEPT !.updatedAt = clock]
       IN  IF UpdateBasicInfoError(updates) # NoError
           THEN ProductThrow("updateBasicInfo", i, props,
                             UpdateBasicInfoError(updates))
           ELSE ProductConstructor("updateBasicInfo", i, props)
    /\ UNCHANGED clock

\* updateStock(newStock) on instance i
ProductUpdateStock(i, newStock) ==
    /\ op = "product"
    /\ Len(products) < MaxProducts
    /\ i \in 1..Len(products)
    /\ LET props == [products[i] EXCEPT !.inStock = newStock,
                                        !.updatedAt = clock]
       IN  IF validateStock(newStock) # NoError
           THEN ProductThrow("updateStock", i, props, validateStock(newStock))
           ELSE ProductConstructor("updateStock", i, props)
    /\ UNCHANGED clock

\* reduceStock(quantity) on instance i
ProductReduceStock(i, quantity) ==
    /\ op = "product"
    /\ Len(products) < MaxProducts
    /\ i \in 1..Len(products)
    /\ LET props == [products[i] EXCEPT
                         !.inStock = Minus(products[i].inStock, quantity),
                         !.updatedAt = clock]
       IN  IF LessOrEqual(quantity, Whole(0))
           THEN ProductThrow("reduceStock", i, props,
                    DomainError("Menge muss positiv sein", "INVALID_QUANTITY"))
           ELSE IF Less(products[i].inStock, quantity)
           THEN ProductThrow("reduceStock", i, props,
                    DomainError("Nicht genuegend Lagerbestand",
                                "INSUFFICIENT_STOCK"))
           ELSE ProductConstructor("reduceStock", i, props)
    /\ UNCHANGED clock

\* addStock(quantity) on instance i
ProductAddStock(i, quantity) ==
    /\ op = "product"
    /\ Len(products) < MaxProducts
    /\ i \in 1..Len(products)
    /\ LET props == [products[i] EXCEPT
                         !.inStock = Plus(products[i].inStock, quantity),
                         !.updatedAt = clock]
       IN  IF LessOrEqual(quantity, Whole(0))
           THEN ProductThrow("addStock", i, props,
                    DomainError("Menge muss positiv sein", "INVALID_QUANTITY"))
           ELSE ProductConstructor("addStock", i, props)
    /\ UNCHANGED clock

\* addImage(imageUrl) on instance i
ProductAddImage(i, imageUrl) ==
    /\ op = "product"
    /\ Len(products) < MaxProducts
    /\ i \in 1..Len(products)
    /\ LET props == [products[i] EXCEPT !.images = Append(@, imageUrl),
                                        !.updatedAt = clock]
       IN  IF IsBlank(imageUrl)
           THEN ProductThrow("addImage", i, props,
                    ValidationError("Bild-URL ist erforderlich", "imageUrl"))
           ELSE IF Includes(products[i].images, imageUrl)
           THEN ProductThrow("addImage", i, props,
                    DomainError("Bild ist bereits vorhanden",
                                "IMAGE_ALREADY_EXISTS"))
           ELSE ProductConstructor("addImage", i, props)
    /\ UNCHANGED clock

\* removeImage(imageUrl) on instance i
ProductRemoveImage(i, imageUrl) ==
    /\ op = "product"
    /\ Len(products) < MaxProducts
    /\ i \in 1..Len(products)
    /\ LET props == [products[i] EXCEPT !.images = Without(@, imageUrl),
                                        !.updatedAt = clock]
       IN  IF ~Includes(products[i].images, imageUrl)
           THEN ProductThrow("removeImage", i, props,
                    DomainError("Bild nicht gefunden", "IMAGE_NOT_FOUND"))
           ELSE ProductConstructor("removeImage", i, props)
    /\ UNCHANGED clock

UpperCase ==
    <<"A", "B", "C", "D", "E", "F", "G", "H", "I", "J", "K", "L", "M", "N",
      "O", "P", "Q", "R", "S", "T", "U", "V", "W", "X", "Y", "Z">>
LowerCase ==
    <<"a", "b", "c", "d", "e", "f", "g", "h", "i", "j", "k", "l", "m", "n",
      "o", "p", "q", "r", "s", "t", "u", "v", "w", "x", "y", "z">>

\* str.toLowerCase()
ToLowerCase(str) ==
    [k \in 1..Len(str) |->
        IF \E u \in 1..Len(UpperCase) : UpperCase[u] = str[k]
        THEN LowerCase[CHOOSE u \in 1..Len(UpperCase) : UpperCase[u] = str[k]]
        ELSE str[k]]

\* tags.findIndex(t => t.toLowerCase() === tag.toLowerCase()), from 1; 0 for -1
TagIndex(tags, tag) ==
    LET found == {k \in 1..Len(tags) : ToLowerCase(tags[k]) = ToLowerCase(tag)}
    IN  IF found = {} THEN 0 ELSE SetMin(found)

\* tags.filter((_, index) => index !== tagIndex)
WithoutIndex(tags, tagIndex) ==
    [k \in 1..(Len(tags) - 1) |-> IF k < tagIndex THEN tags[k] ELSE tags[k + 1]]

\* addTag(tag) on instance i
ProductAddTag(i, tag) ==
    /\ op = "product"
    /\ Len(products) < MaxProducts
    /\ i \in 1..Len(products)
    /\ LET normalizedTag == ToLowerCase(Trim(tag))
           props == [products[i] EXCEPT !.tags = Append(@, Trim(tag)),
                                        !.updatedAt = clock]
       IN  IF normalizedTag = <<>>
           THEN ProductThrow("addTag", i, props,
                    ValidationError("Tag ist erforderlich", "tag"))
           ELSE IF \E k \in 1..Len(products[i].tags) :
                       ToLowerCase(products[i].tags[k]) = normalizedTag
           THEN ProductThrow("addTag", i, props,
                    DomainError("Tag ist bereits vorhanden",
                                "TAG_ALREADY_EXISTS"))
           ELSE ProductConstructor("addTag", i, props)
    /\ UNCHANGED clock

\* removeTag(tag) on instance i
ProductRemoveTag(i, tag) ==
    /\ op = "product"
    /\ Len(products) < MaxProducts
    /\ i \in 1..Len(products)
    /\ LET tagIndex == TagIndex(products[i].tags, tag)
       IN  IF tagIndex = 0
           THEN ProductThrow("removeTag", i, products[i],
                    DomainError("Tag nicht gefunden", "TAG_NOT_FOUND"))
           ELSE ProductConstructor("removeTag", i,
                    [products[i] EXCEPT !.tags = WithoutIndex(@, tagIndex),
                                        !.updatedAt = clock])
    /\ UNCHANGED clock

\* activate() (active = TRUE) and deactivate() (active = FALSE) on instance i
ProductSetActive(i, active) ==
    /\ op = "product"
    /\ Len(products) < MaxProducts
    /\ i \in 1..Len(products)
    /\ LET props == [products[i] EXCEPT !.isActive = active,
                                        !.updatedAt = clock]
           method == IF active THEN "activate" ELSE "deactivate"
       IN  IF products[i].isActive = active
           THEN ProductThrow(method, i, props,
                    IF active
                    THEN DomainError("Produkt ist bereits aktiv",
                                     "PRODUCT_ALREADY_ACTIVE")
                    ELSE DomainError("Produkt ist bereits deaktiviert",
                                     "PRODUCT_ALREADY_INACTIVE"))
           ELSE ProductConstructor(method, i, props)
    /\ UNCHANGED clock

\* time passes between two calls
ProductClockTick ==
    /\ op = "product"
    /\ clock < MaxClock
    /\ clock' = clock + 1
    /\ UNCHANGED productVars

ValidProductName == <<"T", "v">>
ValidDescription == Text(DescriptionMinLength)

\* props that pass the validation, and props that differ from them in one
\* property
BaseProductProps ==
    [id |-> "existing-product-id", name |-> ValidProductName,
     description |-> ValidDescription, price |-> Number(1999),
     currency |-> "EUR", categoryId |-> "c1", images |-> <<Str1("a")>>,
     inStock |-> Whole(2), isActive |-> TRUE, tags |-> <<<<"N", "e", "w">>>>,
     createdAt |-> 0, updatedAt |-> 0]
ProductNames ==
    {<<>>, <<"T">>, <<" ", " ">>, Repeat("n", ProductNameMaxLength),
     Repeat("n", ProductNameMaxLength + 1)}
Descriptions ==
    {Text(0), BlankText(DescriptionMinLength), Text(DescriptionMinLength - 1),
     Text(DescriptionMaxLength), Text(DescriptionMaxLength + 1)}
Prices == {Whole(0), MaxPrice, Number(-1), Plus(MaxPrice, Number(1)), NaN}
Stocks == {Whole(0), Whole(-1), Number(150), NaN}
Quantities == {Whole(0), Whole(-1), Whole(1), Whole(3), Number(50), NaN}
ImageUrls == {<<>>, <<" ">>, Str1("a"), Str1("b")}
Tags == {<<>>, <<" ">>, <<"n", "e", "w">>, <<" ", "S", "a", "l", "e">>}

ProductPropsInputs ==
    {BaseProductProps}
        \cup {[BaseProductProps EXCEPT !.name = n] : n \in ProductNames}
        \cup {[BaseProductProps EXCEPT !.description = d] : d \in Descriptions}
        \cup {[BaseProductProps EXCEPT !.price = p] : p \in Prices}
        \cup {[BaseProductProps EXCEPT !.inStock = s] : s \in Stocks}
        \cup {[BaseProductProps EXCEPT !.isActive = FALSE]}

NoBasicInfo ==
    [name |-> NoName, description |-> NoName, price |-> Undefined,
     categoryId |-> NoString]
BasicInfoUpdates ==
    {NoBasicInfo}
        \cup {[NoBasicInfo EXCEPT !.name = Name(n)] :
                 n \in ProductNames \cup {<<"R", "a", "d", "i", "o">>}}
        \cup {[NoBasicInfo EXCEPT !.description = Name(d)] : d \in Descriptions}
        \cup {[NoBasicInfo EXCEPT !.price = Num(p)] : p \in Prices}
        \cup {[NoBasicInfo EXCEPT !.categoryId = String("c2")]}

\* a run makes one instance with create or fromPersistence, and the others
\* with the update operations
ProductCreate ==
    products = <<>> /\ \E props \in ProductPropsInputs : ProductCreateCall(props)
FromPersistenceProduct ==
    products = <<>>
        /\ \E props \in ProductPropsInputs : ProductFromPersistence(props)
UpdateBasicInfo ==
    \E i \in 1..Len(products) :
        \E updates \in BasicInfoUpdates : ProductUpdateBasicInfo(i, updates)
UpdateStock ==
    \E i \in 1..Len(products) :
        \E newStock \in Stocks \cup {Whole(3)} : ProductUpdateStock(i, newStock)
ReduceStock ==
    \E i \in 1..Len(products) :
        \E quantity \in Quantities : ProductReduceStock(i, quantity)
AddStock ==
    \E i \in 1..Len(products) :
        \E quantity \in Quantities : ProductAddStock(i, quantity)
AddImage ==
    \E i \in 1..Len(products) :
        \E imageUrl \in ImageUrls : ProductAddImage(i, imageUrl)
RemoveImage ==
    \E i \in 1..Len(products) :
        \E imageUrl \in ImageUrls : ProductRemoveImage(i, imageUrl)
AddTag ==
    \E i \in 1..Len(products) : \E tag \in Tags : ProductAddTag(i, tag)
RemoveTag ==
    \E i \in 1..Len(products) : \E tag \in Tags : ProductRemoveTag(i, tag)
ActivateProduct == \E i \in 1..Len(products) : ProductSetActive(i, TRUE)
DeactivateProduct == \E i \in 1..Len(products) : ProductSetActive(i, FALSE)

notProductVars ==
    <<op, httpVars, ucVars, users, arrays, lastCall, boundaryVars, raceVars,
      storageVars>>

ProductNext ==
    \/ ProductCreate /\ UNCHANGED notProductVars
    \/ FromPersistenceProduct /\ UNCHANGED notProductVars
    \/ UpdateBasicInfo /\ UNCHANGED notProductVars
    \/ UpdateStock /\ UNCHANGED notProductVars
    \/ ReduceStock /\ UNCHANGED notProductVars
    \/ AddStock /\ UNCHANGED notProductVars
    \/ AddImage /\ UNCHANGED notProductVars
    \/ RemoveImage /\ UNCHANGED notProductVars
    \/ AddTag /\ UNCHANGED notProductVars
    \/ RemoveTag /\ UNCHANGED notProductVars
    \/ ActivateProduct /\ UNCHANGED notProductVars
    \/ DeactivateProduct /\ UNCHANGED notProductVars
    \/ ProductClockTick /\ UNCHANGED notProductVars

InitProduct == op = "product" /\ HttpUnused /\ UseCaseIdle /\ RestIdle

SpecProduct == InitProduct /\ [][ProductNext]_vars

-----------------------------------------------------------------------------
(* Properties of the Product entity.                                       *)

ValidProductProps(props) ==
    /\ Len(props.name) >= ProductNameMinLength
    /\ Len(props.name) <= ProductNameMaxLength
    /\ props.description.length >= DescriptionMinLength
    /\ props.description.length <= DescriptionMaxLength
    /\ LessOrEqual(Whole(0), props.price)
    /\ LessOrEqual(props.price, MaxPrice)
    /\ LessOrEqual(Whole(0), props.inStock)
    /\ NumberIsInteger(props.inStock)

\* C15: every Product instance has a name of 2..100 characters, a
\* description of 10..1000 characters, a price in [0, 999999.99] and an
\* inStock that is a non-negative integer; a call whose result would not
\* throws and makes no instance.
C15_ProductAlwaysValid ==
    /\ \A i \in 1..Len(products) : ValidProductProps(products[i])
    /\ productCall.threw => productCall.result = 0
    /\ (productCall.method # "none"
            /\ ~ValidProductProps(productCall.candidate)) => productCall.threw

-----------------------------------------------------------------------------
(* Properties of ListUsersUseCase.                                         *)

FindAllCalled ==
    op = "listUsers" /\ \E k \in 1..Len(calls) : calls[k] = "findAll"

\* C16: the pagination handed to userRepository.findAll has page >= 1 and
\* 5 <= pageSize <= 100; a missing or zero page becomes 1, a missing or zero
\* pageSize becomes 10, a missing sortBy 'createdAt' and a missing sortOrder
\* 'desc'; a value already in range is handed on unchanged.
C16_PaginationClamped ==
    FindAllCalled =>
        LET given == input.pagination
            passed == queryArg.pagination
        IN  /\ passed.page.defined /\ passed.page.value >= 1
            /\ passed.pageSize.defined
            /\ passed.pageSize.value >= 5
            /\ passed.pageSize.value <= 100
            /\ (~given.page.defined \/ given.page.value = 0)
                   => passed.page.value = 1
            /\ (~given.pageSize.defined \/ given.pageSize.value = 0)
                   => passed.pageSize.value = 10
            /\ given.sortBy = "" => passed.sortBy = "createdAt"
            /\ given.sortOrder = "" => passed.sortOrder = "desc"
            /\ (given.page.defined /\ given.page.value >= 1)
                   => passed.page = given.page
            /\ (given.pageSize.defined /\ given.pageSize.value >= 5
                    /\ given.pageSize.value <= 100)
                   => passed.pageSize = given.pageSize
            /\ given.sortBy # "" => passed.sortBy = given.sortBy
            /\ given.sortOrder # "" => passed.sortOrder = given.sortOrder

C16_Witness ==
    /\ FindAllCalled
    /\ input.pagination.page = Num(-3)
    /\ input.pagination.pageSize = Num(500)
    /\ queryArg.pagination.page = Num(1)
    /\ queryArg.pagination.pageSize = Num(100)

-----------------------------------------------------------------------------
(* ErrorBoundary (application layer).  A thrown value is named by its      *)
(* class, "null" is the value null; React hands whatever a child threw     *)
(* to getDerivedStateFromError and, when it commits, to componentDidCatch, *)
(* and renders again after every change of the state.                      *)

DomainErrors ==
    {"DomainError", "ValidationError", "NotFoundError", "UnauthorizedError"}
ThrownValues == DomainErrors \cup {"TypeError", "ReferenceError", "Error", "null"}
ComponentStacks == {"in Child", "in Page"}

\* a value is truthy
Truthy(value) == value # "null"

\* getErrorType(error): the subclasses of DomainError are instances of it
getErrorType(error) ==
    IF error \in DomainErrors THEN "Domain-Fehler"
    ELSE IF error = "TypeError" THEN "Typ-Fehler"
    ELSE IF error = "ReferenceError" THEN "Referenz-Fehler"
    ELSE "Unbekannter Fehler"

\* getErrorMessage(error) of the component
BoundaryErrorMessage(error, dev) ==
    IF error \in DomainErrors \/ dev THEN "error.message"
    ELSE IF error = "TypeError"
    THEN "Es ist ein technischer Fehler aufgetreten."
    ELSE "Ein unerwarteter Fehler ist aufgetreten."

\* render()
render(st, props) ==
    IF st.hasError /\ Truthy(st.error)
    THEN IF props.fallback /\ Truthy(st.errorInfo)
         THEN [output |-> "props.fallback", error |-> st.error,
               errorType |-> "", errorMessage |-> ""]
         ELSE [output |-> "DefaultErrorFallback", error |-> st.error,
               errorType |-> getErrorType(st.error),
               errorMessage |-> BoundaryErrorMessage(st.error, props.dev)]
    ELSE [output |-> "children", error |-> "null", errorType |-> "",
          errorMessage |-> ""]

\* getDerivedStateFromError(error), merged into the state
getDerivedStateFromError(st, error) ==
    [st EXCEPT !.hasError = TRUE, !.error = error]

\* new ErrorBoundary(props) and its first render
ErrorBoundaryConstructor(props) ==
    /\ op = "boundary"
    /\ rendered = NoOutput
    /\ boundaryProps' = props
    /\ state' = NoState
    /\ rendered' = render(NoState, props)
    /\ UNCHANGED caught

\* a child throws while it renders: React calls getDerivedStateFromError and
\* renders the boundary again
ChildThrows(error, errorInfo) ==
    /\ op = "boundary"
    /\ rendered.output = "children"
    /\ ~caught.pending
    /\ state' = getDerivedStateFromError(state, error)
    /\ caught' = [error |-> error, errorInfo |-> errorInfo, pending |-> TRUE]
    /\ rendered' = render(getDerivedStateFromError(state, error), boundaryProps)
    /\ UNCHANGED boundaryProps

\* componentDidCatch(error, errorInfo), which React calls when it commits
\* the render that followed the throw
componentDidCatch ==
    /\ op = "boundary"
    /\ caught.pending
    /\ state' = [state EXCEPT !.error = caught.error,
                              !.errorInfo = caught.errorInfo]
    /\ caught' = [caught EXCEPT !.pending = FALSE]
    /\ rendered' = render([state EXCEPT !.error = caught.error,
                                        !.errorInfo = caught.errorInfo],
                          boundaryProps)
    /\ UNCHANGED boundaryProps

\* retry(), which the fallback on the screen calls
retry ==
    /\ op = "boundary"
    /\ rendered.output \in {"props.fallback", "DefaultErrorFallback"}
    /\ ~caught.pending
    /\ state' = NoState
    /\ rendered' = render(NoState, boundaryProps)
    /\ UNCHANGED <<boundaryProps, caught>>

Construct ==
    rendered = NoOutput
        /\ \E props \in [fallback : BOOLEAN, dev : BOOLEAN] :
               ErrorBoundaryConstructor(props)
Throw ==
    rendered.output = "children"
        /\ \E error \in ThrownValues, errorInfo \in ComponentStacks :
               ChildThrows(error, errorInfo)

notBoundaryVars ==
    <<op, httpVars, ucVars, userVars, productVars, raceVars, storageVars>>

BoundaryNext ==
    \/ Construct /\ UNCHANGED notBoundaryVars
    \/ Throw /\ UNCHANGED notBoundaryVars
    \/ componentDidCatch /\ UNCHANGED notBoundaryVars
    \/ retry /\ UNCHANGED notBoundaryVars

InitBoundary == op = "boundary" /\ HttpUnused /\ UseCaseIdle /\ RestIdle

SpecBoundary == InitBoundary /\ [][BoundaryNext]_vars

-----------------------------------------------------------------------------
(* Properties of ErrorBoundary.                                            *)

\* C17: hasError is true if and only if error is not null; without an error
\* the state is the initial one and the children are rendered, with an
\* error a fallback is rendered and never the children.
C17_BoundaryStateMachine ==
    rendered # NoOutput =>
        /\ state.hasError <=> state.error # "null"
        /\ ~state.hasError =>
               state = NoState /\ rendered.output = "children"
        /\ state.hasError =>
               rendered.output \in {"props.fallback", "DefaultErrorFallback"}

-----------------------------------------------------------------------------
(* GetUserUseCase on UserApiRepository on HttpClient, as the container     *)
(* wires them: execute awaits findById, which awaits httpClient.get.       *)

\* findById from the settling of the request on: the Result it returns
findByIdResult(o) ==
    IF o.settled = "rejected"
    THEN \* the client rejects with an ApiErrorResponse, which is no Error
         Failure(PlainError("Fehler beim findById"))
    ELSE IF ~o.value.success
    THEN IF ~o.value.hasError
         THEN Failure(JsTypeError("Cannot read properties of undefined"))
         ELSE IF o.value.code = "NOT_FOUND"
         THEN Success(FALSE, NoUser)
         ELSE Failure(PlainError(o.value.errorMessage))
    ELSE LET mapped == mapApiDataToUser(o.value.data)
         IN  IF mapped.how = "throw"
             THEN Failure(IF IsErrorInstance(mapped.error) THEN mapped.error
                          ELSE PlainError("Fehler beim findById"))
             ELSE mapped.value

\* execute(input) up to the fetch of the first attempt
LookupExecute(in) ==
    /\ GetUserExecute(in)
    /\ IF IsBlank(in.id) THEN UNCHANGED httpVars ELSE HttpStart(FALSE)

\* the request has settled: findById returns, and execute goes on
LookupFindById ==
    /\ upc = "findById"
    /\ hpc \in {"resolved", "rejected"}
    /\ GetUserFindById(Returns(findByIdResult(httpResult)))

Lookup == upc = "idle" /\ \E in \in GetUserInputs : LookupExecute(in)

LookupNext ==
    \/ Lookup /\ UNCHANGED <<op, restVars>>
    \/ FetchResolves /\ UNCHANGED <<op, ucVars, restVars>>
    \/ FetchFails /\ UNCHANGED <<op, ucVars, restVars>>
    \/ FetchAborted /\ UNCHANGED <<op, ucVars, restVars>>
    \/ TimeoutFires /\ UNCHANGED <<op, ucVars, restVars>>
    \/ DelayElapses /\ UNCHANGED <<op, ucVars, restVars>>
    \/ LookupFindById /\ UNCHANGED <<op, httpVars, restVars>>

InitLookup == op = "getUser" /\ HttpInit /\ UseCaseIdle /\ RestIdle

SpecLookup == InitLookup /\ [][LookupNext]_vars

-----------------------------------------------------------------------------
(* Properties of the lookup of a user.                                     *)

\* the server's last answer is a non-2xx response with the error envelope
\* whose code is NOT_FOUND
AnsweredNotFound ==
    /\ LastOutcome.event = "response"
    /\ ~ResponseOk(LastOutcome.status)
    /\ LastOutcome.readable
    /\ LastOutcome.text = ErrorEnvelopeText

\* C18: when the server answers with a non-2xx response whose error
\* envelope has the code NOT_FOUND, findById returns { success: true,
\* data: null } and execute returns a failure with a NotFoundError.
C18_MissingUserIsNotFound ==
    (upc = "done" /\ Called("findById") /\ AnsweredNotFound) =>
        /\ returned["findById"] = Returns(Success(FALSE, NoUser))
        /\ ~result.value.success
        /\ result.value.error.name = "NotFoundError"
        /\ result.value.error.code = "NOT_FOUND"

-----------------------------------------------------------------------------
(* Properties of UpdateUserUseCase.execute.                                *)

Updating == op = "updateUser" /\ input # NoInput

\* validateInput(input) returned success: an id, at least one update, names
\* that are not blank and at most 50 characters long, an avatar that is
\* empty or a URL
UpdateInputValid ==
    /\ ~IsBlank(input.id)
    /\ input.updates.given
    /\ \E f \in {"firstName", "lastName", "avatar"} : input.updates[f].defined
    /\ \A f \in {"firstName", "lastName"} :
           input.updates[f].defined =>
               /\ ~IsBlank(input.updates[f].value)
               /\ Len(input.updates[f].value) <= 50
    /\ input.updates.avatar.defined =>
           input.updates.avatar.value \in {"", "https://a.example/j.png"}

\* findById returned success with a user
FoundUser ==
    /\ ReturnedSuccess("findById")
    /\ returned["findById"].value.user # NoUser

\* a field of the updates differs from the user findById returned
FieldDiffers ==
    \/ /\ input.updates.firstName.defined
       /\ input.updates.firstName.value
              # returned["findById"].value.user.firstName
    \/ /\ input.updates.lastName.defined
       /\ input.updates.lastName.value
              # returned["findById"].value.user.lastName
    \/ /\ input.updates.avatar.defined
       /\ input.updates.avatar # returned["findById"].value.user.avatar

\* C19: update is called only when the input is valid, findById returned a
\* user and a field differs; when findById returned null the result is a
\* NotFoundError; when no field differs the result is success with the
\* current user, and neither update nor logUserUpdate is called.
C19_UpdateOnlyWhenChanged ==
    Updating =>
        /\ Called("update") => UpdateInputValid /\ FoundUser /\ FieldDiffers
        /\ (upc = "done" /\ ReturnedSuccess("findById")
                /\ returned["findById"].value.user = NoUser) =>
               /\ ~result.value.success
               /\ result.value.error.name = "NotFoundError"
               /\ ~Called("update")
        /\ (upc = "done" /\ FoundUser /\ ~FieldDiffers) =>
               /\ result.value = Success(FALSE, returned["findById"].value.user)
               /\ ~Called("update")
               /\ ~Called("logUserUpdate")

C19_Witness ==
    /\ Updating
    /\ upc = "done"
    /\ FoundUser
    /\ ~FieldDiffers
    /\ input.updates.firstName.defined
    /\ result.value.success

\* the number of calls of dependency d
CallCount(d) == Cardinality({k \in 1..Len(calls) : calls[k] = d})

\* C20: when update succeeded, the result is success with the user update
\* returned, however logUserUpdate settles; logUserUpdate is called at most
\* once, and only after update succeeded.
C20_AuditLoggingBestEffort ==
    Updating =>
        /\ (upc = "done" /\ ReturnedSuccess("update")) =>
               result.value = Success(FALSE, returned["update"].value.user)
        /\ CallCount("logUserUpdate") <= 1
        /\ Called("logUserUpdate") =>
               /\ ReturnedSuccess("update")
               /\ \E k \in 1..(Len(calls) - 1) :
                      calls[k] = "update" /\ calls[k + 1] = "logUserUpdate"

C20_Witness ==
    /\ Updating
    /\ upc = "done"
    /\ ReturnedSuccess("update")
    /\ returned["logUserUpdate"].how = "throw"
    /\ result.value.success

\* C21: the audit log is fire-and-forget: while logUserUpdate has been
\* called and has not settled, execute has already returned its success
\* result.
C21_AuditLogNotAwaited ==
    (Updating /\ Called("logUserUpdate")
        /\ returned["logUserUpdate"].how = "none") =>
            /\ result.settled = "resolved"
            /\ result.value.success

-----------------------------------------------------------------------------
(* Properties of the filters of ListUsersUseCase.                          *)

\* what validateFilters rejects: a search of more than 100 characters, a
\* dateFrom after the dateTo, a status other than active, inactive and all
FiltersInvalid ==
    /\ input.filters.given
    /\ \/ Len(input.filters.search) > 100
       \/ /\ input.filters.dateFrom.defined
          /\ input.filters.dateTo.defined
          /\ input.filters.dateFrom.value > input.filters.dateTo.value
       \/ input.filters.status \notin {"", "active", "inactive", "all"}

\* C22: without includeInactive and without a status in the input filters,
\* findAll is called with status 'active' and the other filter fields of the
\* input; otherwise with the status of the input.  When the validation of
\* the filters fails, the result is a DomainError VALIDATION_ERROR and findAll
\* is not called.
C22_DefaultActivityFilter ==
    /\ FindAllCalled =>
           /\ queryArg.filters.search = input.filters.search
           /\ queryArg.filters.dateFrom = input.filters.dateFrom
           /\ queryArg.filters.dateTo = input.filters.dateTo
           /\ queryArg.filters.status =
                  IF ~input.includeInactive /\ input.filters.status = ""
                  THEN "active" ELSE input.filters.status
    /\ (op = "listUsers" /\ upc = "done" /\ input.pagination.given
            /\ FiltersInvalid) =>
           /\ ~result.value.success
           /\ result.value.error.name = "DomainError"
           /\ result.value.error.code = "VALIDATION_ERROR"
           /\ ~Called("findAll")

C22_Witness ==
    /\ FindAllCalled
    /\ ~input.includeInactive
    /\ input.filters.given
    /\ input.filters.status = ""
    /\ input.filters.search = <<"j", "o">>
    /\ queryArg.filters.status = "active"
    /\ queryArg.filters.search = <<"j", "o">>


-----------------------------------------------------------------------------
(* The roles of a User: runs of addRole and removeRole on the instances    *)
(* that descend from one made by create or fromPersistence.                *)

\* hasRole(role) on instance i
hasRole(i, role) == Includes(arrays[users[i].roles], role)

RolesNext ==
    \/ Create /\ UNCHANGED notUserVars
    \/ FromPersistence /\ UNCHANGED notUserVars
    \/ AddRole /\ UNCHANGED notUserVars
    \/ RemoveRole /\ UNCHANGED notUserVars

InitRoles == op = "roles" /\ HttpUnused /\ UseCaseIdle /\ RestIdle

SpecRoles == InitRoles /\ [][RolesNext]_vars

NoDuplicates(array) ==
    \A k, l \in 1..Len(array) : array[k] = array[l] => k = l

RoleSet(array) == {array[k] : k \in 1..Len(array)}

\* the last call was addRole(role) on an instance without the role, and it
\* returned instance i
JustAdded(i, role) ==
    /\ lastCall.method = "addRole"
    /\ lastCall.result = i
    /\ arrays[users[i].roles] = Append(lastCall.beforeRoles, role)

\* C23: the roles of a User stay free of duplicates under addRole and
\* removeRole; addRole of a role the user has throws DomainError
\* ROLE_ALREADY_EXISTS and removeRole of a role the user lacks throws
\* DomainError ROLE_NOT_FOUND, neither making an instance; removeRole(r) on
\* the result of addRole(r) gives the roles from before the addRole; and
\* hasRole(r) is true exactly when r is among the roles.
C23_RolesAreASet ==
    [][/\ \A i \in 1..Len(users') : NoDuplicates(arrays'[users'[i].roles])
       /\ \A i \in 1..Len(users), role \in Roles :
             /\ hasRole(i, role) <=> role \in RoleSet(arrays[users[i].roles])
             /\ (UserAddRole(i, role) /\ hasRole(i, role)) =>
                    /\ lastCall'.threw
                    /\ lastCall'.error.name = "DomainError"
                    /\ lastCall'.error.code = "ROLE_ALREADY_EXISTS"
                    /\ users' = users
             /\ (UserAddRole(i, role) /\ ~hasRole(i, role)) =>
                    /\ lastCall'.result = Len(users) + 1
                    /\ arrays'[users'[lastCall'.result].roles]
                           = Append(arrays[users[i].roles], role)
             /\ (UserRemoveRole(i, role) /\ ~hasRole(i, role)) =>
                    /\ lastCall'.threw
                    /\ lastCall'.error.name = "DomainError"
                    /\ lastCall'.error.code = "ROLE_NOT_FOUND"
                    /\ users' = users
             /\ (UserRemoveRole(i, role) /\ hasRole(i, role)) =>
                    /\ lastCall'.result = Len(users) + 1
                    /\ ~Includes(arrays'[users'[lastCall'.result].roles], role)
             /\ (JustAdded(i, role) /\ UserRemoveRole(i, role)) =>
                    arrays'[users'[lastCall'.result].roles]
                        = lastCall.beforeRoles]_vars

\* removeRole(r) has returned an instance made from the result of addRole(r)
C23_Witness ==
    /\ lastCall.method = "removeRole"
    /\ lastCall.result = 3
    /\ lastCall.receiver = 2
    /\ Len(lastCall.beforeRoles) = Len(arrays[users[1].roles]) + 1
    /\ arrays[users[3].roles] = arrays[users[1].roles]
    /\ users[3].roles # users[1].roles


-----------------------------------------------------------------------------
(* Properties of the activation of a User.                                 *)

\* C30: activate() returns an instance only on an inactive user, and the
\* instance is active; deactivate() returns one only on an active user, and
\* it is inactive; activate() on an active user throws DomainError
\* USER_ALREADY_ACTIVE and deactivate() on an inactive user throws
\* DomainError USER_ALREADY_INACTIVE, neither making an instance; canLogin()
\* is isActive; and the user that User.create makes from props without
\* isActive is active.
C30_ActivationTwoStates ==
    [][/\ \A i \in 1..Len(users), active \in BOOLEAN :
             /\ canLogin(i) = users[i].isActive
             /\ (UserSetActive(i, active) /\ users[i].isActive = active) =>
                    /\ lastCall'.threw
                    /\ lastCall'.error.name = "DomainError"
                    /\ lastCall'.error.code = (IF active
                                               THEN "USER_ALREADY_ACTIVE"
                                               ELSE "USER_ALREADY_INACTIVE")
                    /\ users' = users
             /\ (UserSetActive(i, active) /\ users[i].isActive # active) =>
                    /\ ~lastCall'.threw
                    /\ lastCall'.result = Len(users) + 1
                    /\ users'[lastCall'.result].isActive = active
                    /\ users'[i].isActive = ~active
       /\ \A props \in UserCreateInputs :
             (UserCreateCall(props) /\ ~props.isActive.defined
                  /\ lastCall'.result # 0) =>
                 users'[lastCall'.result].isActive]_vars

\* deactivate() has returned an inactive instance made from an active one
\* that User.create made
C30_Witness ==
    /\ lastCall.method = "deactivate"
    /\ lastCall.receiver = 1
    /\ lastCall.result = 2
    /\ users[1].id = "uuid-1"
    /\ canLogin(1)
    /\ ~canLogin(2)


-----------------------------------------------------------------------------
(* Properties of the tags of a Product.                                    *)

\* hasTag(tag) on an instance with these tags
hasTag(tags, tag) ==
    \E k \in 1..Len(tags) : ToLowerCase(tags[k]) = ToLowerCase(tag)

\* C29: after addTag(t) returns an instance, hasTag(t) is true on that
\* instance, and removeTag(t) on it finds the tag and leaves the tag list
\* the product had before addTag(t), for every tag string t.
C29_TagOperationsConsistent ==
    [][\A i \in 1..Len(products), tag \in Tags :
          (ProductAddTag(i, tag) /\ productCall'.result # 0) =>
              LET added == productCall'.result
                  tagIndex == TagIndex(products'[added].tags, tag)
              IN  /\ hasTag(products'[added].tags, tag)
                  /\ tagIndex # 0
                  /\ WithoutIndex(products'[added].tags, tagIndex)
                         = products[i].tags]_vars


-----------------------------------------------------------------------------
(* Properties of the timers and of the caller's signal in HttpClient.      *)

Settled == hpc \in {"resolved", "rejected"}

\* C25: when the request has settled, no timeout timer of any of its
\* attempts is still pending: the timer of an attempt is cleared when the
\* attempt ends, whether its fetch resolved or threw.
C25_NoTimerPendingWhenSettled ==
    /\ Settled => \A i \in 1..Len(timers) : timers[i] # "pending"
    /\ \A i \in 1..Len(outcomes) : timers[i] # "pending"

\* C26: an attempt whose fetch was aborted by the caller's signal is the
\* last fetch of the request: no retry delay follows it and the request
\* rejects.
C26_CallerAbortNotRetried ==
    \A i \in 1..Len(outcomes) :
        (outcomes[i].event = "AbortError" /\ outcomes[i].cause = "caller") =>
            /\ i = fetchCount
            /\ hpc = "rejected"
            /\ httpResult.settled = "rejected"


-----------------------------------------------------------------------------
(* Properties of what CreateUserUseCase hands to save.                     *)

\* the fields of the user handed to save, for the input's email and names
SavedFields(email, firstName, lastName) ==
    [email |-> email, firstName |-> firstName, lastName |-> lastName,
     avatar |-> NoString, isActive |-> TRUE, roles |-> <<"user">>]

\* C27: the user handed to userRepository.save is made of the input's
\* email, firstName and lastName, isActive true and roles ['user'], whatever
\* the password and whatever hash returned; and the user of a success is
\* the one save returned.
C27_SavedUserIndependentOfPassword ==
    /\ Called("save") =>
           /\ returned["hash"].how = "return"
           /\ [f \in DOMAIN saveArg \ {"id"} |-> saveArg[f]]
                  = SavedFields(input.email, input.firstName, input.lastName)
    /\ (Done /\ result.value.success) =>
           /\ DOMAIN result.value = {"success", "flag", "user", "error"}
           /\ result.value.user = returned["save"].value.user

\* save has been called in an execution with the second password, whose
\* hash was the second hash
C27_Witness ==
    /\ Called("save")
    /\ input.password = Repeat("y", PasswordMinLength)
    /\ returned["hash"] = Returns(Hashed("hash-2"))
    /\ Done
    /\ result.value.success


-----------------------------------------------------------------------------
(* Two concurrent executions of CreateUserUseCase.execute against one      *)
(* repository, which answers emailExists from the users it has saved.  An  *)
(* execution runs from one await to the next without interruption.         *)

\* execution p goes to position pc, having called the dependencies in called
RaceGoto(p, pc, called) ==
    executions' = [executions EXCEPT ![p].pc = pc,
                                     ![p].calls = @ \o called]

\* execution p returns r
RaceReturn(p, r, called) ==
    executions' = [executions EXCEPT ![p].pc = "done", ![p].result = r,
                                     ![p].calls = @ \o called]

\* the error the catch block of execute returns
RaceCaught(error) ==
    IF IsErrorInstance(error) THEN error
    ELSE PlainError("Unbekannter Fehler beim Erstellen des Benutzers")

\* execute(input) of execution p, up to its first await
RaceExecute(p, in) ==
    /\ op = "race"
    /\ executions[p].pc = "idle"
    /\ IF ~CreateUserValidateInput(in).success
       THEN executions' = [executions EXCEPT
                              ![p].input = in, ![p].pc = "done",
                              ![p].result = CreateUserValidateInput(in)]
       ELSE executions' = [executions EXCEPT
                              ![p].input = in, ![p].pc = "emailExists",
                              ![p].calls = <<"emailExists">>]
    /\ UNCHANGED stored

\* the repository has a user with this email
RepositoryEmailExists(email) == \E k \in 1..Len(stored) : stored[k] = email

\* userRepository.emailExists settles for execution p
RaceEmailExists(p) ==
    /\ op = "race"
    /\ executions[p].pc = "emailExists"
    /\ IF RepositoryEmailExists(executions[p].input.email)
       THEN RaceReturn(p, Failure(DomainError(
                              "E-Mail-Adresse ist bereits registriert",
                              "EMAIL_ALREADY_EXISTS")), <<>>)
       ELSE RaceGoto(p, "hash", <<"hash">>)
    /\ UNCHANGED stored

\* passwordHasher.hash settles for execution p; then User.create and the
\* call of save
RaceHash(p, o) ==
    /\ op = "race"
    /\ executions[p].pc = "hash"
    /\ LET props == CreateUserProps(executions[p].input)
       IN  IF o.how = "throw"
           THEN RaceReturn(p, Failure(RaceCaught(o.error)), <<>>)
           ELSE IF UserConstructorError(props) # NoError
           THEN RaceReturn(p, Failure(RaceCaught(UserConstructorError(props))),
                           <<>>)
           ELSE RaceGoto(p, "save", <<"save">>)
    /\ UNCHANGED stored

\* userRepository.save settles for execution p: the repository has saved the
\* user; sendWelcomeEmailAsync is called and execute returns
RaceSave(p) ==
    /\ op = "race"
    /\ executions[p].pc = "save"
    /\ stored' = Append(stored, executions[p].input.email)
    /\ RaceReturn(p, Success(FALSE,
                     Stored(UserCreate(CreateUserProps(executions[p].input)))),
                  <<"sendWelcomeEmail">>)

RaceInputs ==
    [email : {<<"a", "@", "b", ".", "c">>, <<"d", "@", "b", ".", "c">>},
     firstName : {<<"J", "o">>, <<"J", "3">>}, lastName : {<<"D", "o", "e">>},
     password : {Repeat("x", PasswordMinLength - 1),
                 Repeat("x", PasswordMinLength)}]

notRaceVars ==
    <<op, httpVars, ucVars, userVars, productVars, boundaryVars, storageVars>>

RaceNext ==
    \/ \E p \in Executions :
           /\ executions[p].pc = "idle"
           /\ \E in \in RaceInputs : RaceExecute(p, in)
           /\ UNCHANGED notRaceVars
    \/ \E p \in Executions : RaceEmailExists(p) /\ UNCHANGED notRaceVars
    \/ \E p \in Executions, o \in HashOutcomes :
           RaceHash(p, o) /\ UNCHANGED notRaceVars
    \/ \E p \in Executions : RaceSave(p) /\ UNCHANGED notRaceVars

InitRace == op = "race" /\ HttpUnused /\ UseCaseIdle /\ RestIdle

SpecRace == InitRace /\ [][RaceNext]_vars

SaveCalled(p) ==
    \E k \in 1..Len(executions[p].calls) : executions[p].calls[k] = "save"

\* C28: of two concurrent executions with the same email, against a
\* repository that had no user with that email, save is called for at most
\* one and at most one returns success; when one has returned success and
\* the other has had its answer from emailExists after that, the other
\* returns EMAIL_ALREADY_EXISTS.
C28_EmailUniqueUnderConcurrency ==
    \A p, q \in Executions :
        (p # q /\ executions[p].input.email = executions[q].input.email) =>
            /\ ~(SaveCalled(p) /\ SaveCalled(q))
            /\ ~(executions[p].pc = "done" /\ executions[p].result.success
                    /\ executions[q].pc = "done"
                    /\ executions[q].result.success)


-----------------------------------------------------------------------------
(* infrastructure/services: LocalStorageService, SessionStorageService,    *)
(* InMemoryStorageService and StorageServiceFactory.  A value is a string  *)
(* of the caller; an item is the JSON text of a value.  In an environment  *)
(* where a browser storage is not usable its setItem throws.               *)

StorageValues == {"dark", "light"}

\* JSON.stringify(value) of a string
JsonStringify(value) == "\"" \o value \o "\""

\* safeJsonParse(json, fallback): JSON.parse, or the fallback when it throws
safeJsonParse(json, fallback) ==
    IF \E value \in StorageValues : json = JsonStringify(value)
    THEN CHOOSE value \in StorageValues : json = JsonStringify(value)
    ELSE fallback

\* localStorage.setItem / sessionStorage.setItem(key, item)
BrowserSetItem(class, items, key, item) ==
    IF storageEnv[class]
    THEN [threw |-> FALSE,
          items |-> [k \in DOMAIN items |-> IF k = key THEN item ELSE items[k]]]
    ELSE [threw |-> TRUE, items |-> items]

\* isLocalStorageAvailable / isSessionStorageAvailable: setItem and
\* removeItem of a test key, false when they throw
IsStorageAvailable(class) ==
    ~BrowserSetItem(class, backends[class], "__test__", "test").threw

\* set(key, value) of a service of the class: the items afterwards, and
\* whether the call threw.  The browser services return early when the
\* storage is not available and catch and log what setItem throws
StorageSet(class, key, value) ==
    LET items == backends[class]
        written == [k \in DOMAIN items |->
                       IF k = getFullKey(key) THEN JsonStringify(value)
                       ELSE items[k]]
    IN  IF class = "memory" THEN [threw |-> FALSE, items |-> written]
        ELSE IF ~IsStorageAvailable(class)
        THEN [threw |-> FALSE, items |-> items]
        ELSE IF BrowserSetItem(class, items, getFullKey(key),
                               JsonStringify(value)).threw
        THEN [threw |-> FALSE, items |-> items]
        ELSE [threw |-> FALSE,
              items |-> BrowserSetItem(class, items, getFullKey(key),
                                       JsonStringify(value)).items]

\* remove(key) of a service of the class
StorageRemove(class, key) ==
    LET items == backends[class]
        removed == [k \in DOMAIN items |->
                       IF k = getFullKey(key) THEN NoItem ELSE items[k]]
    IN  IF class = "memory" THEN [threw |-> FALSE, items |-> removed]
        ELSE IF ~IsStorageAvailable(class)
        THEN [threw |-> FALSE, items |-> items]
        ELSE [threw |-> FALSE, items |-> removed]

\* get(key, defaultValue) of a service of the class over these items
StorageGet(class, items, key, defaultValue) ==
    IF class # "memory" /\ ~IsStorageAvailable(class) THEN defaultValue
    ELSE IF items[getFullKey(key)] = NoItem THEN defaultValue
    ELSE safeJsonParse(items[getFullKey(key)], defaultValue)

\* StorageServiceFactory.createDefault(): the class of the service returned
createDefault ==
    IF ~StorageSet("local", "__test__", "test").threw
           /\ ~StorageRemove("local", "__test__").threw
    THEN "local"
    ELSE IF ~StorageSet("session", "__test__", "test").threw
               /\ ~StorageRemove("session", "__test__").threw
    THEN "session"
    ELSE "memory"

\* createDefault(), createLocalStorage(), createSessionStorage() and
\* createInMemoryStorage()
StorageCreate(factory) ==
    /\ op = "storage"
    /\ service = NoService
    /\ service' = [class |-> CASE factory = "createDefault" -> createDefault
                               [] factory = "createLocalStorage" -> "local"
                               [] factory = "createSessionStorage" -> "session"
                               [] OTHER -> "memory",
                   madeBy |-> factory]
    /\ storageCall' = [method |-> factory, key |-> "", value |-> "",
                       result |-> ""]
    /\ UNCHANGED <<storageEnv, backends>>

\* service.set(key, value)
StorageSetCall(key, value) ==
    /\ op = "storage"
    /\ service # NoService
    /\ backends' = [backends EXCEPT
                       ![service.class] = StorageSet(service.class, key,
                                                     value).items]
    /\ storageCall' = [method |-> "set", key |-> key, value |-> value,
                       result |-> ""]
    /\ UNCHANGED <<storageEnv, service>>

\* service.get(key, defaultValue)
StorageGetCall(key, defaultValue) ==
    /\ op = "storage"
    /\ service # NoService
    /\ storageCall' = [method |-> "get", key |-> key, value |-> defaultValue,
                       result |-> StorageGet(service.class,
                                             backends[service.class], key,
                                             defaultValue)]
    /\ UNCHANGED <<storageEnv, service, backends>>

\* service.remove(key)
StorageRemoveCall(key) ==
    /\ op = "storage"
    /\ service # NoService
    /\ backends' = [backends EXCEPT
                       ![service.class] = StorageRemove(service.class,
                                                        key).items]
    /\ storageCall' = [method |-> "remove", key |-> key, value |-> "",
                       result |-> ""]
    /\ UNCHANGED <<storageEnv, service>>

Factories == {"createDefault", "createLocalStorage", "createSessionStorage",
              "createInMemoryStorage"}

notStorageVars ==
    <<op, httpVars, ucVars, userVars, productVars, boundaryVars, raceVars>>

StorageNext ==
    \/ \E factory \in Factories : StorageCreate(factory)
           /\ UNCHANGED notStorageVars
    \/ \E key \in StorageKeys, value \in StorageValues :
           StorageSetCall(key, value) /\ UNCHANGED notStorageVars
    \/ \E key \in StorageKeys, defaultValue \in StorageValues :
           StorageGetCall(key, defaultValue) /\ UNCHANGED notStorageVars
    \/ \E key \in StorageKeys : StorageRemoveCall(key)
           /\ UNCHANGED notStorageVars

\* the environments: each browser storage usable or not
InitStorage ==
    /\ op = "storage"
    /\ HttpUnused /\ UseCaseIdle
    /\ UserIdle /\ ProductIdle /\ BoundaryIdle /\ RaceIdle
    /\ storageEnv \in [local : BOOLEAN, session : BOOLEAN]
    /\ service = NoService
    /\ backends = NoBackends
    /\ storageCall = NoStorageCall

SpecStorage == InitStorage /\ [][StorageNext]_vars

\* C24: the service createDefault returns is a LocalStorageService only if
\* localStorage is usable, else a SessionStorageService if sessionStorage is
\* usable, else an InMemoryStorageService; and after set(key, v) on it,
\* get(key, d) returns v, in every environment.
C24_DefaultStorageWorks ==
    [][service'.madeBy = "createDefault" =>
          /\ service'.class =
                 (IF storageEnv.local THEN "local"
                  ELSE IF storageEnv.session THEN "session" ELSE "memory")
          /\ \A key \in StorageKeys, value \in StorageValues :
                 StorageSetCall(key, value) =>
                     \A defaultValue \in StorageValues :
                         StorageGet(service.class, backends'[service.class],
                                    key, defaultValue) = value]_vars

=============================================================================
